---- MODULE Spec2Model ----
(***************************************************************************)
(* A model of sled's lock-free page cache (src/io/page/page_cache.rs)      *)
(* together with the log reservation protocol it drives                    *)
(* (src/io/log/reservation.rs).                                            *)
(*                                                                         *)
(* Every public operation of PageCache is a small state machine run by one *)
(* of several client threads.  A thread carries a call stack of frames,    *)
(* because link and replace call get and replace_recurse_once again when   *)
(* the segment accountant asks for a page to be rewritten, and get calls   *)
(* replace_recurse_once when it consolidates.  One action of the model is  *)
(* the code between two accesses of shared memory.                         *)
(*                                                                         *)
(* A head pointer is the identity of a node, and nodes are not reused      *)
(* while a thread can still hold them (epoch reclamation): a pointer a     *)
(* thread holds equals the head of its stack exactly as long as no         *)
(* compare-and-swap has succeeded on that stack since the thread read it.  *)
(* So every pointer held by a thread is a flag, cleared by each successful *)
(* compare-and-swap on the stack it points into; the null pointer is the   *)
(* head of every empty stack.                                              *)
(***************************************************************************)
EXTENDS Integers, Sequences, FiniteSets, TLC

\* ------------------------------------------------------------------ bounds

NumThreads == 2
MaxPid == 1
MaxLog == 6
MaxCalls == 3
MaxStacks == 3
MaxCleans == 1
MaxEvict == 2
MaxCrashes == 1
NumSegments == 2
MaxMsgLen == 1
MaxNones == 1
MaxSpins == 1
MaxYielded == 3

\* --------------------------------------------------------- configuration

page_consolidation_threshold == 2
cache_fixup_threshold == 1
snapshot_after_ops == 1
io_buf_size == 2
segment_len == 5

Threads == 1..NumThreads
Pids == 0..(MaxPid - 1)
\* the pids a page table can hold: those the clients of this run address, and
\* one more, a page that only an earlier run allocated
PageIds == 0..MaxPid

\* Page fragments are opaque to the cache; the clients write distinct ones.
\* The earlier run wrote fragments 1 and 2, the n-th call of this run
\* writes fragment n + 2.
Frag(n) == <<n>>
NoPid == -1

VARIABLES
    inner,          \* Radix: pid -> stack object (0: no entry)
    stacks,         \* stack object -> [es: entries, top first; hist, cons: ghosts]
    max_pid,        \* AtomicUsize
    free,           \* Stack<PageID>, top first
    pending,        \* PidDroppers deferred until their epoch closes
    updates,        \* AtomicUsize
    log,            \* the log: lsn -> message
    stable,         \* the log's stable offset
    sa,             \* segment accountant
    last_snapshot,  \* Mutex<Option<Snapshot>>: the value
    snap_lock,      \* Mutex<Option<Snapshot>>: the holder (0: free)
    disk,           \* the newest snapshot file
    th,             \* thread -> call stack of frames, innermost last
    ret,            \* what the step just taken returned to a client, and to whom
    cleans,         \* number of pages the segment accountant asked to rewrite
    calls,          \* number of public calls the clients have made
    marks,          \* ghost: the lsns the segment accountant has been told of
    lin,            \* ghost: page tables after each linearized operation
    iter,           \* an Iter over the log file, with what its call of next is at
    file,           \* the log file under the cursor of iter, as far as it was read
    yielded         \* ghost: the item iter yielded last, and how many it yielded

pcVars == <<inner, stacks, max_pid, free, pending, updates>>
logVars == <<log, stable, sa, marks, cleans>>
snapVars == <<last_snapshot, snap_lock, disk>>
iterVars == <<iter, file, yielded>>
vars == <<pcVars, logVars, snapVars, th, ret, calls, lin, iterVars>>

\* ----------------------------------------------------------------- helpers

Last(s) == s[Len(s)]
Front(s) == SubSeq(s, 1, Len(s) - 1)
Range(s) == {s[i] : i \in 1..Len(s)}
Max(a, b) == IF a >= b THEN a ELSE b
Min(a, b) == IF a <= b THEN a ELSE b

RECURSIVE Reverse(_)
Reverse(s) == IF s = <<>> THEN <<>> ELSE Append(Reverse(Tail(s)), Head(s))

\* Materializer::merge of the documented TestMaterializer: concatenation.
RECURSIVE merge(_)
merge(frags) == IF frags = <<>> THEN <<>> ELSE Head(frags) \o merge(Tail(frags))

\* ------------------------------------------------------------ cache entries

Resident(frag, lsn, lid) == [k |-> "Resident", frag |-> frag, lsn |-> lsn, lid |-> lid]
\* a replace that installed its fragment as a plain Resident
MergedResidentAsResident(frag, lsn, lid) == Resident(frag, lsn, lid)

MergedResident(frag, lsn, lid) == [k |-> "MergedResident", frag |-> frag, lsn |-> lsn, lid |-> lid]
PartialFlush(lsn, lid) == [k |-> "PartialFlush", frag |-> <<>>, lsn |-> lsn, lid |-> lid]
Flush(lsn, lid) == [k |-> "Flush", frag |-> <<>>, lsn |-> lsn, lid |-> lid]

\* StackIter::from_ptr(head) for the current head of a stack object
StackIter(sid) == stacks[sid].es

lids_of(es) == [i \in 1..Len(es) |-> es[i].lid]

\* lids_from_stack(head) for the current head of a stack object
lids_from_stack(sid) == lids_of(StackIter(sid))

\* ------------------------------------------------------------------ the log

\* The bytes of a LoggedUpdate, in the slice of a Reservation.  kind is what
\* the slice holds; flushed is Reservation::flushed; exits counts the calls
\* of iobufs.exit_reservation made for the reservation.
LoggedUpdate(pid, update, frag) ==
    [pid |-> pid, update |-> update, frag |-> frag, kind |-> "reserved",
     flushed |-> FALSE, exits |-> 0]

\* Vec::is_empty of the serialized update: it holds the update's tag at least
is_empty(bytes) == bytes.update = ""

\* Log::reserve: the next lsn and the slice for it (lid is the lsn's place in
\* the file, which has not wrapped).
reserve(lg, bytes) == Append(lg, bytes)
ReservedLsn(lg) == Len(lg) + 1
LidOf(lsn) == lsn

\* Reservation::flush(valid): the slice receives the data, or zeroes, and
\* the buffer is left; flushing a flushed reservation panics before either.
ReservationFlush(lg, lsn, valid) ==
    IF lg[lsn].flushed THEN lg
    ELSE [lg EXCEPT ![lsn].kind = IF valid THEN "flush" ELSE "zeroed",
                    ![lsn].flushed = TRUE,
                    ![lsn].exits = @ + 1]

\* a Drop that let go of the reservation without flushing it
DropLeaks(lg, lsn) == lg

\* Drop for Reservation: a reservation that was never flushed is aborted
Drop(lg, lsn) ==
    IF ~is_empty(lg[lsn]) /\ ~lg[lsn].flushed THEN ReservationFlush(lg, lsn, FALSE) ELSE lg

\* Reservation::complete and Reservation::abort consume the reservation:
\* flush, then the drop of self
complete(lg, lsn) == Drop(ReservationFlush(lg, lsn, TRUE), lsn)
\* an abort that flushed the reservation as valid
abortFlushesValid(lg, lsn) == Drop(ReservationFlush(lg, lsn, TRUE), lsn)

abort(lg, lsn) == Drop(ReservationFlush(lg, lsn, FALSE), lsn)

\* the longest prefix of the log none of whose reservations is pending
RECURSIVE ResolvedPrefix(_, _)
ResolvedPrefix(lg, n) ==
    IF n < Len(lg) /\ lg[n + 1].kind # "reserved" THEN ResolvedPrefix(lg, n + 1) ELSE n

\* Log::make_stable(lsn) returns once lsn is on disk; it cannot while a
\* reservation at or below lsn is pending.
CanStabilize(lsn) == ResolvedPrefix(log, 0) >= lsn
make_stable(lsn) == Max(stable, lsn)

\* Log::read: the message at lid as the file holds it.
LogRead(lsn, lid) ==
    IF lid \in 1..Len(log) /\ lid <= stable /\ log[lid].kind = "flush"
    THEN [k |-> "Flush", update |-> log[lid].update, frag |-> log[lid].frag]
    ELSE [k |-> "Failed", update |-> "", frag |-> <<>>]

\* an iterator that yields the zeroed messages too
RECURSIVE IterNextYieldsZeroed(_, _, _)
IterNextYieldsZeroed(lg, cur_lsn, max_lsn) ==
    IF cur_lsn > max_lsn \/ cur_lsn > Len(lg) THEN <<>>
    ELSE IF lg[cur_lsn].kind \in {"flush", "zeroed"}
         THEN <<[lsn |-> cur_lsn, lid |-> LidOf(cur_lsn), bytes |-> lg[cur_lsn]]>>
                  \o IterNextYieldsZeroed(lg, cur_lsn + 1, max_lsn)
         ELSE <<>>

\* Iter::next, repeated: the flush messages from cur_lsn up to max_lsn in lsn
\* order; a zeroed message moves the cursor and yields nothing.
RECURSIVE IterNext(_, _, _)
IterNext(lg, cur_lsn, max_lsn) ==
    IF cur_lsn > max_lsn \/ cur_lsn > Len(lg) THEN <<>>
    ELSE IF lg[cur_lsn].kind = "flush"
         THEN <<[lsn |-> cur_lsn, lid |-> LidOf(cur_lsn), bytes |-> lg[cur_lsn]]>>
                  \o IterNext(lg, cur_lsn + 1, max_lsn)
         ELSE IF lg[cur_lsn].kind = "zeroed"
              THEN IterNext(lg, cur_lsn + 1, max_lsn)
              ELSE <<>>

\* ------------------------------------------------------ segment accountant

mark_link(s, pid, lsn, lid) == [s EXCEPT !.live = @ \cup {<<pid, lid>>}]

mark_replace(s, pid, lsn, old_lids, new_lid) ==
    [s EXCEPT !.live = (@ \ {<<pid, old_lids[i]>> : i \in 1..Len(old_lids)})
                           \cup {<<pid, new_lid>>}]

\* SegmentAccountant::clean(exclude): a page with a live fragment in the
\* segment being drained, never the excluded one; or nothing to clean.
clean(s, exclude) ==
    {NoPid} \cup (IF cleans < MaxCleans
                  THEN {p \in Pids : p # exclude /\ \E x \in s.live : x[1] = p}
                  ELSE {})

\* ------------------------------------------------------------------ page_in

\* The traversal of PageCache::page_in (the loop over the stack), entry by
\* entry: to_merge, merged_resident, lids, fix_up_length, and the short
\* circuit on a MergedResident met before anything else.
Scan0 == [to_merge |-> <<>>, merged_resident |-> FALSE, lids |-> <<>>,
          fix_up_length |-> 0, short |-> FALSE, frag |-> <<>>]

RECURSIVE Scan(_, _)
Scan(es, st) ==
    IF es = <<>> \/ st.short THEN st
    ELSE LET e == Head(es)
             at == <<e.lsn, e.lid>>
         IN  IF e.k = "Resident"
             THEN Scan(Tail(es),
                       [st EXCEPT !.to_merge = IF st.merged_resident THEN @ ELSE Append(@, e.frag),
                                  !.lids = Append(@, at)])
             ELSE IF e.k = "MergedResident"
             THEN IF st.lids = <<>>
                  THEN [st EXCEPT !.short = TRUE, !.frag = e.frag]
                  ELSE Scan(Tail(es),
                            [st EXCEPT !.to_merge = IF st.merged_resident THEN @ ELSE Append(@, e.frag),
                                       !.fix_up_length = IF st.merged_resident THEN @ ELSE Len(st.lids),
                                       !.merged_resident = TRUE,
                                       !.lids = Append(@, at)])
             ELSE Scan(Tail(es), [st EXCEPT !.lids = Append(@, at)])

\* the entries page_in pulls from the log when no merged value is in memory
ToPull(st) ==
    IF st.merged_resident THEN <<>>
    ELSE SubSeq(st.lids, Len(st.to_merge) + 1, Len(st.lids))

\* PageCache::pull panics unless the log holds an Append or a Compact there.
PullOk(at) ==
    LET r == LogRead(at[1], at[2])
    IN  r.k = "Flush" /\ r.update \in {"Compact", "Append"}

pull(at) == LogRead(at[1], at[2]).frag

\* a page_in that merged without reversing to oldest first
CombinedNewestFirst(to_merge, fetched) == to_merge \o fetched

\* the fragments handed to merge: residents, then pulled, reversed to oldest first
Combined(to_merge, fetched) == Reverse(to_merge \o fetched)

\* a fix-up that gave its MergedResident the position of the oldest entry
FixUpOldestPosition(lids, merged) ==
    LET rest == Tail(lids)
    IN  <<MergedResident(merged, Last(lids)[1], Last(lids)[2])>>
        \o (IF rest = <<>> THEN <<>>
            ELSE [i \in 1..Len(rest) - 1 |-> PartialFlush(rest[i][1], rest[i][2])]
                 \o <<Flush(Last(rest)[1], Last(rest)[2])>>)

\* the stack page_in installs when it fixes a page up
FixUp(lids, merged) ==
    LET rest == Tail(lids)
    IN  <<MergedResident(merged, lids[1][1], lids[1][2])>>
        \o (IF rest = <<>> THEN <<>>
            ELSE [i \in 1..Len(rest) - 1 |-> PartialFlush(rest[i][1], rest[i][2])]
                 \o <<Flush(Last(rest)[1], Last(rest)[2])>>)

\* a page_out that made a PartialFlush of the last entry too
PagedOutAllPartial(es) == [i \in 1..Len(es) |-> PartialFlush(es[i].lsn, es[i].lid)]

\* the stack page_out installs: nothing resident, the last entry a Flush
PagedOut(es) ==
    [i \in 1..Len(es) |->
        IF i = Len(es) THEN Flush(es[i].lsn, es[i].lid)
        ELSE PartialFlush(es[i].lsn, es[i].lid)]

\* page_out panics on a PartialFlush at the end or a Flush in the middle
PageOutPanics(es) ==
    \/ Last(es).k = "PartialFlush"
    \/ \E i \in 1..Len(es) - 1 : es[i].k = "Flush"

\* ------------------------------------------------------- threads and frames

\* A head pointer held by a thread: into which stack object, whether it is
\* null, and whether it (still) is the head of that stack.
Ptr(sid, null, ok) == [sid |-> sid, null |-> null, ok |-> ok]
NoPtr == Ptr(0, TRUE, FALSE)
Null == Ptr(0, TRUE, TRUE)
HeadOf(sid) == IF stacks[sid].es = <<>> THEN Null ELSE Ptr(sid, FALSE, TRUE)

\* what a call returns: k is Ok | ErrNone | ErrSome | Some | None | Pid | Unit;
\* hist is the ghost history of the head a get loaded
Result(op, pid, k, head, val, hist) ==
    [op |-> op, pid |-> pid, k |-> k, head |-> head, val |-> val, hist |-> hist]
NoResult == Result("", 0, "", NoPtr, <<>>, <<>>)

\* the output of a step: thread t's public call returned r (t = 0: no return)
Returned(t, r) == [t |-> t, r |-> r]
NoReturn == Returned(0, NoResult)

Frame0 ==
    [fn |-> "", pc |-> "", pid |-> 0, sid |-> 0, old |-> NoPtr, new |-> <<>>,
     recursed |-> FALSE, lsn |-> 0, resv |-> 0, head |-> NoPtr, hist |-> <<>>,
     merged |-> <<>>, lids |-> <<>>, fetched |-> FALSE, fix_up_length |-> 0,
     evict |-> <<>>, po_head |-> NoPtr, to_clean |-> NoPid, old_lids |-> <<>>,
     snapshot |-> <<>>, result |-> NoResult, res |-> NoResult]

Top(t) == Last(th[t])
Below(t) == Front(th[t])
At(t, fn, pc) == th[t] # <<>> /\ Top(t).fn = fn /\ Top(t).pc = pc
Idle(t) == th[t] = <<>>

\* A compare-and-swap succeeded on stack object `sid` (0: none did): every
\* pointer into that stack held anywhere stops being its head.
InvPtr(p, sid) == IF sid # 0 /\ p.sid = sid THEN [p EXCEPT !.ok = FALSE] ELSE p
InvResult(r, sid) == [r EXCEPT !.head = InvPtr(@, sid)]
InvFrame(f, sid) ==
    [f EXCEPT !.old = InvPtr(@, sid), !.head = InvPtr(@, sid), !.po_head = InvPtr(@, sid),
              !.result = InvResult(@, sid), !.res = InvResult(@, sid)]
InvFrames(fs, sid) == [i \in 1..Len(fs) |-> InvFrame(fs[i], sid)]

\* the tail of page_in after its consolidating replace_recurse_once returned
AfterConsolidation(f, r) ==
    IF r.k = "ErrNone" THEN Result("get", f.pid, "None", NoPtr, <<>>, f.hist)
    ELSE Result("get", f.pid, "Some",
                IF r.k = "Ok" THEN r.head ELSE f.head, f.merged, f.hist)

\* A call returns r to the frames below it.  A caller that has nothing left
\* to do but return (pc "ret"), or only the tail of page_in, returns at once.
RECURSIVE Unwind(_, _)
Unwind(fs, r) ==
    IF fs = <<>> THEN [fs |-> <<>>, done |-> TRUE, r |-> r]
    ELSE LET c == Last(fs)
         IN  IF c.pc = "ret" THEN Unwind(Front(fs), c.result)
             ELSE IF c.pc = "g_consolidated"
                  THEN Unwind(Front(fs), AfterConsolidation(c, r))
                  ELSE [fs |-> [fs EXCEPT ![Len(fs)].res = r], done |-> FALSE, r |-> r]

\* thread t returns r from its innermost call, the frames fs staying below
Finish(t, fs, r, cas) ==
    LET u == Unwind(InvFrames(fs, cas), r)
    IN  /\ th' = [x \in Threads |-> IF x = t THEN u.fs ELSE InvFrames(th[x], cas)]
        /\ ret' = IF u.done THEN Returned(t, u.r) ELSE NoReturn

\* thread t goes on in its innermost frame, which becomes f
Goto(t, f, cas) ==
    /\ th' = [x \in Threads |->
                 IF x = t THEN Append(InvFrames(Below(t), cas), f) ELSE InvFrames(th[x], cas)]
    /\ ret' = NoReturn

\* thread t, its frames now being `caller`, calls: `callee` is pushed
Call(t, caller, callee) ==
    /\ th' = [th EXCEPT ![t] = Append(caller, callee)]
    /\ ret' = NoReturn

\* A panic unwinds the thread: every Reservation it holds is dropped, and
\* Drop for Reservation aborts a reservation that was never flushed.
RECURSIVE DropReservations(_, _)
DropReservations(lg, fs) ==
    IF fs = <<>> THEN lg
    ELSE DropReservations(
             IF Head(fs).resv # 0 THEN Drop(lg, Head(fs).resv) ELSE lg,
             Tail(fs))

Panicked(t) == th[t] # <<>> /\ Top(t).fn = "panic"

Panic(t, fs, why) ==
    /\ th' = [th EXCEPT ![t] = <<[Frame0 EXCEPT !.fn = "panic", !.pc = why]>>]
    /\ log' = DropReservations(log, fs)
    /\ ret' = NoReturn

\* the ghost linearization: the page table after each update that took effect
NoEntry == <<-1>>
AbsPT(inn, stk) ==
    [p \in PageIds |-> IF inn[p] = 0 THEN NoEntry
                    ELSE Reverse([i \in 1..Len(stk[inn[p]].es) |-> stk[inn[p]].es[i].lsn])]

Linearize(inn, stk) ==
    lin' = IF lin.on THEN [lin EXCEPT !.h = @ \cup {AbsPT(inn, stk)}] ELSE lin

\* ------------------------------------------------------------------ allocate

\* PageCache::allocate, to the insertion of the new, empty stack.
Allocate(t) ==
    /\ Idle(t)
    /\ free # <<>> \/ max_pid < MaxPid
    /\ Len(stacks) < MaxStacks
    /\ LET pid == IF free # <<>> THEN Head(free) ELSE max_pid
       IN  /\ free' = IF free # <<>> THEN Tail(free) ELSE free
           /\ max_pid' = IF free # <<>> THEN max_pid ELSE max_pid + 1
           /\ IF inner[pid] # 0
              THEN \* inner.insert(..).unwrap() on a pid that is in the table
                   /\ Panic(t, <<>>, "insert")
                   /\ UNCHANGED <<inner, stacks, lin>>
              ELSE /\ stacks' = Append(stacks, [es |-> <<>>, hist |-> <<>>, cons |-> FALSE])
                   /\ inner' = [inner EXCEPT ![pid] = Len(stacks) + 1]
                   /\ Call(t, <<>>, [Frame0 EXCEPT !.fn = "allocate", !.pc = "a_log", !.pid = pid])
                   /\ Linearize(inner', stacks')
                   /\ UNCHANGED log
    /\ UNCHANGED <<pending, updates, stable, sa, marks, cleans, snapVars>>
    /\ calls < MaxCalls
    /\ calls' = calls + 1
    /\ UNCHANGED iterVars

\* PageCache::allocate, log.write of the Alloc (reserve and complete).
AllocateLog(t) ==
    /\ At(t, "allocate", "a_log")
    /\ Len(log) < MaxLog
    /\ log' = complete(reserve(log, LoggedUpdate(Top(t).pid, "Alloc", <<>>)), ReservedLsn(log))
    /\ Finish(t, Below(t), Result("allocate", Top(t).pid, "Pid", NoPtr, <<>>, <<>>), 0)
    /\ UNCHANGED <<pcVars, stable, sa, marks, cleans, snapVars, lin>>
    /\ UNCHANGED calls
    /\ UNCHANGED iterVars

\* ---------------------------------------------------------------------- free

\* PageCache::free, inner.del
Free(t, pid) ==
    /\ Idle(t)
    /\ IF inner[pid] = 0
       THEN /\ Finish(t, <<>>, Result("free", pid, "Unit", NoPtr, <<>>, <<>>), 0)
            /\ UNCHANGED <<inner, lin>>
       ELSE /\ inner' = [inner EXCEPT ![pid] = 0]
            /\ Call(t, <<>>, [Frame0 EXCEPT !.fn = "free", !.pc = "f_reserve", !.pid = pid,
                                            !.sid = inner[pid]])
            /\ Linearize(inner', stacks)
    /\ UNCHANGED <<stacks, max_pid, free, pending, updates, logVars, snapVars>>
    /\ calls < MaxCalls
    /\ calls' = calls + 1
    /\ UNCHANGED iterVars

\* PageCache::free, the reservation of the Free
FreeReserve(t) ==
    /\ At(t, "free", "f_reserve")
    /\ Len(log) < MaxLog
    /\ log' = reserve(log, LoggedUpdate(Top(t).pid, "Free", <<>>))
    /\ Goto(t, [Top(t) EXCEPT !.pc = "f_sa", !.lsn = ReservedLsn(log), !.resv = ReservedLsn(log)], 0)
    /\ UNCHANGED <<pcVars, stable, sa, marks, cleans, snapVars, lin>>
    /\ UNCHANGED calls
    /\ UNCHANGED iterVars

\* PageCache::free, sa.mark_replace with the lids of the deleted stack.
FreeSa(t) ==
    /\ At(t, "free", "f_sa")
    /\ LET f == Top(t)
       IN  /\ sa' = mark_replace(sa, f.pid, f.lsn, lids_from_stack(f.sid), LidOf(f.lsn))
           /\ marks' = marks \cup {f.lsn}
           /\ Goto(t, [f EXCEPT !.pc = "f_complete"], 0)
    /\ UNCHANGED <<pcVars, log, stable, cleans, snapVars, lin>>
    /\ UNCHANGED calls
    /\ UNCHANGED iterVars

\* a free that pushed the pid itself and deferred a PidDropper as well
FreeCompletePushes(t) ==
    /\ At(t, "free", "f_complete")
    /\ LET f == Top(t)
       IN  /\ log' = complete(log, f.lsn)
           /\ pending' = pending \cup {f.pid}
           /\ free' = <<f.pid>> \o free
           /\ Finish(t, Below(t), Result("free", f.pid, "Unit", NoPtr, <<>>, <<>>), 0)
    /\ UNCHANGED <<inner, stacks, max_pid, updates, stable, sa, marks,
                   cleans, snapVars, lin>>
    /\ UNCHANGED calls
    /\ UNCHANGED iterVars

\* PageCache::free, res.complete() and the deferred PidDropper.
FreeComplete(t) ==
    /\ At(t, "free", "f_complete")
    /\ LET f == Top(t)
       IN  /\ log' = complete(log, f.lsn)
           /\ pending' = pending \cup {f.pid}
           /\ Finish(t, Below(t), Result("free", f.pid, "Unit", NoPtr, <<>>, <<>>), 0)
    /\ UNCHANGED <<inner, stacks, max_pid, free, updates, stable, sa, marks,
                   cleans, snapVars, lin>>
    /\ UNCHANGED calls
    /\ UNCHANGED iterVars

\* The epoch of a free closes: its PidDropper is dropped and pushes the pid.
EpochDrop ==
    /\ \E pid \in pending :
          /\ free' = <<pid>> \o free
          /\ pending' = pending \ {pid}
    /\ ret' = NoReturn
    /\ UNCHANGED <<inner, stacks, max_pid, updates, logVars, snapVars, th, lin>>
    /\ UNCHANGED calls
    /\ UNCHANGED iterVars

\* ------------------------------------------------------------- get / page_in

\* the sequences over S of length up to n
RECURSIVE SeqsUpTo(_, _)
SeqsUpTo(S, n) ==
    IF n = 0 THEN {<<>>}
    ELSE SeqsUpTo(S, n - 1)
         \cup {Append(q, x) : q \in {r \in SeqsUpTo(S, n - 1) : Len(r) = n - 1}, x \in S}

\* Lru::accessed: the victims to page out, most often none; they are pages
\* that were allocated, each named once
accessed ==
    {q \in SeqsUpTo({p \in PageIds : p < max_pid}, MaxEvict) :
        \A i, j \in 1..Len(q) : i # j => q[i] # q[j]}

\* PageCache::get and page_in down to lru.accessed, called with the frames
\* `fs` of the caller below: the head is loaded, the stack traversed, the
\* non-resident tail pulled from the log and everything merged.
Get(t, fs, pid) ==
    LET sid == inner[pid]
        head == HeadOf(sid)
        st == Scan(StackIter(sid), Scan0)
        to_pull == ToPull(st)
        fetched == [i \in 1..Len(to_pull) |-> pull(to_pull[i])]
        merged == merge(Combined(st.to_merge, fetched))
    IN  IF sid = 0
        THEN /\ Finish(t, fs, Result("get", pid, "None", NoPtr, <<>>, <<>>), 0)
             /\ UNCHANGED log
        ELSE IF st.short
        THEN /\ Finish(t, fs, Result("get", pid, "Some", head, st.frag, stacks[sid].hist), 0)
             /\ UNCHANGED log
        ELSE IF st.lids = <<>>
        THEN /\ Finish(t, fs, Result("get", pid, "None", NoPtr, <<>>, <<>>), 0)
             /\ UNCHANGED log
        ELSE IF \E i \in 1..Len(to_pull) : ~PullOk(to_pull[i])
        THEN Panic(t, fs, "pull")
        ELSE /\ \E to_evict \in accessed :
                  Call(t, fs, [Frame0 EXCEPT !.fn = "get",
                                  !.pc = IF to_evict = <<>> THEN "g_fix" ELSE "g_evict",
                                  !.pid = pid, !.sid = sid, !.head = head,
                                  !.hist = stacks[sid].hist,
                                  !.merged = merged, !.lids = st.lids,
                                  !.fetched = (fetched # <<>>),
                                  !.fix_up_length = st.fix_up_length,
                                  !.evict = to_evict])
             /\ UNCHANGED log

GetCall(t, pid) ==
    /\ Idle(t)
    /\ Get(t, <<>>, pid)
    /\ UNCHANGED <<pcVars, stable, sa, marks, cleans, snapVars, lin>>
    /\ calls < MaxCalls
    /\ calls' = calls + 1
    /\ UNCHANGED iterVars

\* PageCache::page_out, one victim: its head is read, its last entry checked
\* and stabilized.
PageOutRead(t) ==
    /\ At(t, "get", "g_evict")
    /\ LET f == Top(t)
           pid == Head(f.evict)
           sid == inner[pid]
           es == StackIter(sid)
           next == IF Tail(f.evict) = <<>> THEN "g_fix" ELSE "g_evict"
       IN  IF sid = 0
           THEN \* continue with the next victim
                /\ Goto(t, [f EXCEPT !.evict = Tail(@), !.pc = next], 0)
                /\ UNCHANGED <<log, stable>>
           ELSE IF es = <<>>
           THEN \* `return`: the victims that follow are not looked at
                /\ Goto(t, [f EXCEPT !.evict = <<>>, !.pc = "g_fix"], 0)
                /\ UNCHANGED <<log, stable>>
           ELSE IF Last(es).k = "PartialFlush"
           THEN /\ Panic(t, Below(t), "page_out")
                /\ UNCHANGED stable
           ELSE /\ CanStabilize(Last(es).lsn)
                /\ stable' = make_stable(Last(es).lsn)
                /\ IF PageOutPanics(es)
                   THEN Panic(t, Below(t), "page_out")
                   ELSE /\ Goto(t, [f EXCEPT !.pc = "g_pocas", !.po_head = HeadOf(sid)], 0)
                        /\ UNCHANGED log
    /\ UNCHANGED <<pcVars, sa, marks, cleans, snapVars, lin>>
    /\ UNCHANGED calls
    /\ UNCHANGED iterVars

\* a page_out that stores its stack whether or not the head is the one it read
PageOutCasBlind(t) ==
    /\ At(t, "get", "g_pocas")
    /\ LET f == Top(t)
           sid == f.po_head.sid
           next == IF Tail(f.evict) = <<>> THEN "g_fix" ELSE "g_evict"
           g == [f EXCEPT !.evict = Tail(@), !.pc = next, !.po_head = NoPtr]
       IN  /\ stacks' = [stacks EXCEPT ![sid].es = PagedOut(@)]
           /\ Goto(t, InvFrame(g, sid), sid)
    /\ UNCHANGED <<inner, max_pid, free, pending, updates, logVars, snapVars, lin>>
    /\ UNCHANGED calls
    /\ UNCHANGED iterVars

\* PageCache::page_out, the CAS of the paged-out stack; a lost race is ignored.
PageOutCas(t) ==
    /\ At(t, "get", "g_pocas")
    /\ LET f == Top(t)
           sid == f.po_head.sid
           next == IF Tail(f.evict) = <<>> THEN "g_fix" ELSE "g_evict"
           g == [f EXCEPT !.evict = Tail(@), !.pc = next, !.po_head = NoPtr]
       IN  IF f.po_head.ok
           THEN /\ stacks' = [stacks EXCEPT ![sid].es = PagedOut(@)]
                /\ Goto(t, InvFrame(g, sid), sid)
           ELSE /\ Goto(t, g, 0)
                /\ UNCHANGED stacks
    /\ UNCHANGED <<inner, max_pid, free, pending, updates, logVars, snapVars, lin>>
    /\ UNCHANGED calls
    /\ UNCHANGED iterVars

\* replace_recurse_once up to inner.get, called with the caller's frames `fs`
Replace(t, fs, pid, old, new, recursed) ==
    IF inner[pid] = 0
    THEN Finish(t, fs, Result("replace", pid, "ErrNone", NoPtr, <<>>, <<>>), 0)
    ELSE Call(t, fs, [Frame0 EXCEPT !.fn = "replace", !.pc = "r_reserve", !.pid = pid,
                                    !.old = old, !.new = new, !.recursed = recursed,
                                    !.sid = inner[pid]])

\* whether CAS(old, ..) on stack object sid succeeds: old is its head
IsHead(old, sid) ==
    IF old.null THEN stacks[sid].es = <<>> ELSE old.sid = sid /\ old.ok

\* a page_in that fixes up only above cache_fixup_threshold traversed entries
PageInFixExceeds(t) ==
    /\ At(t, "get", "g_fix")
    /\ LET f == Top(t)
       IN  IF Len(f.lids) > page_consolidation_threshold
           THEN /\ Replace(t, Append(Below(t), [f EXCEPT !.pc = "g_consolidated"]),
                           f.pid, f.head, f.merged, TRUE)
                /\ UNCHANGED stacks
           ELSE IF f.fetched \/ f.fix_up_length > cache_fixup_threshold
           THEN IF f.head.ok
                THEN /\ stacks' = [stacks EXCEPT ![f.sid].es = FixUp(f.lids, f.merged)]
                     /\ Finish(t, Below(t),
                               Result("get", f.pid, "Some", Ptr(f.sid, FALSE, TRUE),
                                      f.merged, f.hist), f.sid)
                ELSE /\ Finish(t, Below(t),
                               Result("get", f.pid, "Some", f.head, f.merged, f.hist), 0)
                     /\ UNCHANGED stacks
           ELSE /\ Finish(t, Below(t), Result("get", f.pid, "Some", f.head, f.merged, f.hist), 0)
                /\ UNCHANGED stacks
    /\ UNCHANGED <<inner, max_pid, free, pending, updates, logVars, snapVars, lin>>
    /\ UNCHANGED calls
    /\ UNCHANGED iterVars

\* PageCache::page_in, after page_out: consolidation through
\* replace_recurse_once, or the fix-up CAS, or neither.
PageInFix(t) ==
    /\ At(t, "get", "g_fix")
    /\ LET f == Top(t)
       IN  IF Len(f.lids) > page_consolidation_threshold
           THEN /\ Replace(t, Append(Below(t), [f EXCEPT !.pc = "g_consolidated"]),
                           f.pid, f.head, f.merged, TRUE)
                /\ UNCHANGED stacks
           ELSE IF f.fetched \/ f.fix_up_length >= cache_fixup_threshold
           THEN IF f.head.ok
                THEN /\ stacks' = [stacks EXCEPT ![f.sid].es = FixUp(f.lids, f.merged)]
                     /\ Finish(t, Below(t),
                               Result("get", f.pid, "Some", Ptr(f.sid, FALSE, TRUE),
                                      f.merged, f.hist), f.sid)
                ELSE /\ Finish(t, Below(t),
                               Result("get", f.pid, "Some", f.head, f.merged, f.hist), 0)
                     /\ UNCHANGED stacks
           ELSE /\ Finish(t, Below(t), Result("get", f.pid, "Some", f.head, f.merged, f.hist), 0)
                /\ UNCHANGED stacks
    /\ UNCHANGED <<inner, max_pid, free, pending, updates, logVars, snapVars, lin>>
    /\ UNCHANGED calls
    /\ UNCHANGED iterVars

\* ------------------------------------------------------------------- replace

\* the pointers a client passes as `old`: null, or the head of the page as
\* a get would return it now (it may be replaced before it is used)
Olds(pid) ==
    IF inner[pid] = 0 THEN {Null}
    ELSE {Null, HeadOf(inner[pid])}

ReplaceCall(t, pid, old, new) ==
    /\ Idle(t)
    /\ Replace(t, <<>>, pid, old, new, FALSE)
    /\ UNCHANGED <<pcVars, logVars, snapVars, lin>>
    /\ calls < MaxCalls
    /\ calls' = calls + 1
    /\ UNCHANGED iterVars

\* replace_recurse_once: the reservation of the Compact
ReplaceReserve(t) ==
    /\ At(t, "replace", "r_reserve")
    /\ Len(log) < MaxLog
    /\ log' = reserve(log, LoggedUpdate(Top(t).pid, "Compact", Top(t).new))
    /\ Goto(t, [Top(t) EXCEPT !.pc = "r_cas", !.lsn = ReservedLsn(log), !.resv = ReservedLsn(log)], 0)
    /\ UNCHANGED <<pcVars, stable, sa, marks, cleans, snapVars, lin>>
    /\ UNCHANGED calls
    /\ UNCHANGED iterVars

\* replace_recurse_once: the CAS of the one-entry stack; the reservation is
\* aborted when the CAS fails.
ReplaceCas(t) ==
    /\ At(t, "replace", "r_cas")
    /\ LET f == Top(t)
           lsn == f.lsn
           lid == LidOf(lsn)
           node == Ptr(f.sid, FALSE, TRUE)
       IN  IF IsHead(f.old, f.sid)
           THEN /\ stacks' = [stacks EXCEPT ![f.sid] =
                                 [es |-> <<MergedResident(f.new, lsn, lid)>>, hist |-> <<f.new>>,
                                  cons |-> TRUE]]
                /\ Goto(t, [InvFrame(f, f.sid) EXCEPT
                               !.pc = "r_sa",
                               !.old_lids = lids_from_stack(f.sid),
                               !.result = Result("replace", f.pid, "Ok", node, <<>>, <<>>)],
                        f.sid)
                /\ Linearize(inner, stacks')
                /\ UNCHANGED log
           ELSE /\ log' = abort(log, lsn)
                /\ Finish(t, Below(t),
                          Result("replace", f.pid, "ErrSome", HeadOf(f.sid), <<>>, <<>>), 0)
                /\ UNCHANGED <<stacks, lin>>
    /\ UNCHANGED <<inner, max_pid, free, pending, updates, stable, sa, marks, cleans, snapVars>>
    /\ UNCHANGED calls
    /\ UNCHANGED iterVars

\* a replace_recurse_once that asks for a page to clean whatever `recursed` is
ReplaceSaCleansAgain(t) ==
    /\ At(t, "replace", "r_sa")
    /\ LET f == Top(t)
       IN  /\ sa' = mark_replace(sa, f.pid, f.lsn, f.old_lids, LidOf(f.lsn))
           /\ marks' = marks \cup {f.lsn}
           /\ \E to_clean \in clean(sa', NoPid) :
                 /\ Goto(t, [f EXCEPT !.pc = IF to_clean = NoPid THEN "w_complete" ELSE "w_clean",
                                      !.to_clean = to_clean, !.old_lids = <<>>], 0)
                 /\ cleans' = IF to_clean = NoPid THEN cleans ELSE cleans + 1
    /\ UNCHANGED <<pcVars, log, stable, snapVars, lin>>
    /\ UNCHANGED calls
    /\ UNCHANGED iterVars

\* replace_recurse_once: with_sa(mark_replace, then clean unless recursed)
ReplaceSa(t) ==
    /\ At(t, "replace", "r_sa")
    /\ LET f == Top(t)
       IN  /\ sa' = mark_replace(sa, f.pid, f.lsn, f.old_lids, LidOf(f.lsn))
           /\ marks' = marks \cup {f.lsn}
           /\ \E to_clean \in (IF f.recursed THEN {NoPid} ELSE clean(sa', f.pid)) :
                 /\ Goto(t, [f EXCEPT !.pc = IF to_clean = NoPid THEN "w_complete" ELSE "w_clean",
                                      !.to_clean = to_clean, !.old_lids = <<>>], 0)
                 /\ cleans' = IF to_clean = NoPid THEN cleans ELSE cleans + 1
    /\ UNCHANGED <<pcVars, log, stable, snapVars, lin>>
    /\ UNCHANGED calls
    /\ UNCHANGED iterVars

\* ---------------------------------------------------------------------- link

\* a link that reserved its log space before it looked the page up
LinkCallReservesFirst(t, pid, old, new) ==
    /\ Idle(t)
    /\ Len(log) < MaxLog
    /\ IF inner[pid] = 0
       THEN /\ log' = abort(reserve(log, LoggedUpdate(pid, "Append", new)), ReservedLsn(log))
            /\ Finish(t, <<>>, Result("link", pid, "ErrNone", NoPtr, <<>>, <<>>), 0)
       ELSE /\ log' = log
            /\ Call(t, <<>>, [Frame0 EXCEPT !.fn = "link", !.pc = "l_reserve", !.pid = pid,
                                            !.old = old, !.new = new, !.sid = inner[pid]])
    /\ UNCHANGED <<pcVars, stable, sa, marks, cleans, snapVars, lin>>
    /\ calls < MaxCalls
    /\ calls' = calls + 1
    /\ UNCHANGED iterVars

\* PageCache::link up to inner.get
LinkCall(t, pid, old, new) ==
    /\ Idle(t)
    /\ IF inner[pid] = 0
       THEN Finish(t, <<>>, Result("link", pid, "ErrNone", NoPtr, <<>>, <<>>), 0)
       ELSE Call(t, <<>>, [Frame0 EXCEPT !.fn = "link", !.pc = "l_reserve", !.pid = pid,
                                         !.old = old, !.new = new, !.sid = inner[pid]])
    /\ UNCHANGED <<pcVars, logVars, snapVars, lin>>
    /\ calls < MaxCalls
    /\ calls' = calls + 1
    /\ UNCHANGED iterVars

\* PageCache::link: the reservation, of a Compact on a null head, else of
\* an Append
LinkReserve(t) ==
    /\ At(t, "link", "l_reserve")
    /\ Len(log) < MaxLog
    /\ LET f == Top(t)
           update == IF f.old.null THEN "Compact" ELSE "Append"
       IN  /\ log' = reserve(log, LoggedUpdate(f.pid, update, f.new))
           /\ Goto(t, [f EXCEPT !.pc = "l_cap", !.lsn = ReservedLsn(log), !.resv = ReservedLsn(log)], 0)
    /\ UNCHANGED <<pcVars, stable, sa, marks, cleans, snapVars, lin>>
    /\ UNCHANGED calls
    /\ UNCHANGED iterVars

\* PageCache::link: the push by stack.cap; the reservation is aborted when
\* the push fails.
LinkCap(t) ==
    /\ At(t, "link", "l_cap")
    /\ LET f == Top(t)
           lsn == f.lsn
           lid == LidOf(lsn)
           node == Ptr(f.sid, FALSE, TRUE)
       IN  IF IsHead(f.old, f.sid)
           THEN /\ stacks' = [stacks EXCEPT ![f.sid] =
                                 [es |-> <<Resident(f.new, lsn, lid)>> \o @.es,
                                  hist |-> Append(@.hist, f.new), cons |-> @.cons]]
                /\ Goto(t, [InvFrame(f, f.sid) EXCEPT
                               !.pc = "l_sa",
                               !.result = Result("link", f.pid, "Ok", node, <<>>, <<>>)],
                        f.sid)
                /\ Linearize(inner, stacks')
                /\ UNCHANGED log
           ELSE /\ log' = abort(log, lsn)
                /\ Finish(t, Below(t),
                          Result("link", f.pid, "ErrSome", HeadOf(f.sid), <<>>, <<>>), 0)
                /\ UNCHANGED <<stacks, lin>>
    /\ UNCHANGED <<inner, max_pid, free, pending, updates, stable, sa, marks, cleans, snapVars>>
    /\ UNCHANGED calls
    /\ UNCHANGED iterVars

\* PageCache::link: with_sa(mark_link, then clean(None))
LinkSa(t) ==
    /\ At(t, "link", "l_sa")
    /\ LET f == Top(t)
       IN  /\ sa' = mark_link(sa, f.pid, f.lsn, LidOf(f.lsn))
           /\ marks' = marks \cup {f.lsn}
           /\ \E to_clean \in clean(sa', NoPid) :
                 /\ Goto(t, [f EXCEPT !.pc = IF to_clean = NoPid THEN "w_complete" ELSE "w_clean",
                                      !.to_clean = to_clean], 0)
                 /\ cleans' = IF to_clean = NoPid THEN cleans ELSE cleans + 1
    /\ UNCHANGED <<pcVars, log, stable, snapVars, lin>>
    /\ UNCHANGED calls
    /\ UNCHANGED iterVars

\* ------------------------------------------ the tail of link and of replace

Writing(t, pc) == th[t] # <<>> /\ Top(t).fn \in {"link", "replace"} /\ Top(t).pc = pc

\* link / replace_recurse_once: self.get(to_clean) for the page to rewrite
CleanGet(t) ==
    /\ Writing(t, "w_clean")
    /\ Get(t, Append(Below(t), [Top(t) EXCEPT !.pc = "w_cleaned"]), Top(t).to_clean)
    /\ UNCHANGED <<pcVars, stable, sa, marks, cleans, snapVars, lin>>
    /\ UNCHANGED calls
    /\ UNCHANGED iterVars

\* link / replace_recurse_once: the page that get returned is rewritten by
\* replace_recurse_once(to_clean, key, page, scope, true)
CleanReplace(t) ==
    /\ Writing(t, "w_cleaned")
    /\ LET f == Top(t)
           g == [f EXCEPT !.pc = "w_complete", !.res = NoResult]
       IN  IF f.res.k = "Some"
           THEN Replace(t, Append(Below(t), g), f.to_clean, f.res.head, f.res.val, TRUE)
           ELSE Goto(t, g, 0)
    /\ UNCHANGED <<pcVars, logVars, snapVars, lin>>
    /\ UNCHANGED calls
    /\ UNCHANGED iterVars

\* a link or replace that returns Ok with its reservation still pending
CompleteLeavesPending(t) ==
    /\ Writing(t, "w_complete")
    /\ LET f == Top(t)
           count == updates + 1
       IN  /\ log' = log
           /\ updates' = count
           /\ IF count % snapshot_after_ops = 0
              THEN Call(t, Append(Below(t), [f EXCEPT !.pc = "ret", !.resv = 0, !.res = NoResult]),
                        [Frame0 EXCEPT !.fn = "advance_snapshot", !.pc = "s_flush"])
              ELSE Finish(t, Below(t), f.result, 0)
    /\ UNCHANGED <<inner, stacks, max_pid, free, pending, stable, sa, marks, cleans,
                   snapVars, lin>>
    /\ UNCHANGED calls
    /\ UNCHANGED iterVars

\* link / replace_recurse_once: log_reservation.complete(), the update
\* counter, and advance_snapshot every snapshot_after_ops updates
Complete(t) ==
    /\ Writing(t, "w_complete")
    /\ LET f == Top(t)
           count == updates + 1
       IN  /\ log' = complete(log, f.lsn)
           /\ updates' = count
           /\ IF count % snapshot_after_ops = 0
              THEN Call(t, Append(Below(t), [f EXCEPT !.pc = "ret", !.resv = 0, !.res = NoResult]),
                        [Frame0 EXCEPT !.fn = "advance_snapshot", !.pc = "s_flush"])
              ELSE Finish(t, Below(t), f.result, 0)
    /\ UNCHANGED <<inner, stacks, max_pid, free, pending, stable, sa, marks, cleans,
                   snapVars, lin>>
    /\ UNCHANGED calls
    /\ UNCHANGED iterVars

\* ----------------------------------------------------------------- snapshots

NoRecovery == <<>>

\* Materializer::recover, a caller's hook: here the fragments that start
\* with an even number carry recovery state.
recover(frag) == IF frag # <<>> /\ frag[1] % 2 = 0 THEN frag ELSE NoRecovery

\* Snapshot::default.  keys is the key set of pt; segments is the Vec of
\* segments, segment idx at place idx + 1; last_segment is the local of the
\* loop of advance_snapshot, empty between two calls.
Snapshot0 ==
    [max_lsn |-> 0, max_pid |-> 0, free |-> <<>>, keys |-> {},
     pt |-> [p \in PageIds |-> <<>>], recovery |-> NoRecovery,
     segments |-> <<>>, last_segment |-> <<>>]

\* log::Segment: its state and the pages with a live fragment in it
Segment0 == [state |-> "free", pids |-> {}]
recovery_ensure_initialized(seg) ==
    IF seg.state = "free" THEN [seg EXCEPT !.state = "active"] ELSE seg
active_to_inactive(seg) ==
    IF seg.state = "active" THEN [seg EXCEPT !.state = "inactive"] ELSE seg
inactive_to_draining(seg) ==
    IF seg.state = "inactive" THEN [seg EXCEPT !.state = "draining"] ELSE seg
segment_is_empty(seg) == seg.pids = {}
insert_pid(seg, pid) == [seg EXCEPT !.pids = @ \cup {pid}]
remove_pid(seg, pid) ==
    LET left == [seg EXCEPT !.pids = @ \ {pid}]
    IN  IF segment_is_empty(left) THEN inactive_to_draining(left) ELSE left

\* a segment index taken from the offset within the segment
SegmentOfOffset(lid) == lid % io_buf_size

\* the segment of a place of the log file
SegmentOf(lid) == lid \div io_buf_size

\* Vec::resize(n, Segment::default()) when the Vec is shorter than n
Resize(segs, n) ==
    IF Len(segs) < n THEN segs \o [i \in 1..(n - Len(segs)) |-> Segment0] ELSE segs

\* advance_snapshot, before the match: the segment of the item is there and
\* initialized, and the segment the loop has left is inactive, or draining
\* when it is empty
EnterSegment(segs, last_segment, idx) ==
    LET segs1 == Resize(segs, idx + 1)
        segs2 == [segs1 EXCEPT ![idx + 1] = recovery_ensure_initialized(@)]
    IN  IF last_segment # <<>> /\ last_segment[1] # idx
        THEN LET l == last_segment[1] + 1
                 closed == active_to_inactive(segs2[l])
             IN  [segs2 EXCEPT ![l] = IF segment_is_empty(closed)
                                      THEN inactive_to_draining(closed) ELSE closed]
        ELSE segs2

\* advance_snapshot, Compact and Free: the page leaves the segments of its
\* old lids, the segment of the item excepted
LeaveOld(segs, lids, idx, pid) ==
    [j \in 1..Len(segs) |->
        IF j - 1 # idx /\ \E i \in 1..Len(lids) : SegmentOf(lids[i][2]) = j - 1
        THEN remove_pid(segs[j], pid) ELSE segs[j]]

None == [some |-> FALSE, v |-> Snapshot0]
Some(v) == [some |-> TRUE, v |-> v]

RECURSIVE SortDesc(_)
SortDesc(q) ==
    IF q = <<>> THEN <<>>
    ELSE LET i == CHOOSE i \in 1..Len(q) : \A j \in 1..Len(q) : q[j] <= q[i]
         IN  <<q[i]>> \o SortDesc(SubSeq(q, 1, i - 1) \o SubSeq(q, i + 1, Len(q)))

Retain(q, pid) == SelectSeq(q, LAMBDA x : x # pid)

\* the body of the loop of advance_snapshot for an item of the log iterator
\* that the snapshot has not applied yet
Apply(s, it) ==
    LET u == it.bytes
        at == <<it.lsn, it.lid>>
        idx == SegmentOf(it.lid)
        s1 == [s EXCEPT !.max_lsn = it.lsn,
                        !.max_pid = IF u.pid >= @ THEN u.pid + 1 ELSE @,
                        !.segments = EnterSegment(@, s.last_segment, idx),
                        !.last_segment = <<idx>>]
        left == LeaveOld(s1.segments, s.pt[u.pid], idx, u.pid)
        r == recover(u.frag)
    IN  IF u.update = "Append"
        THEN IF u.pid \in s1.keys
             THEN [s1 EXCEPT !.pt[u.pid] = Append(@, at),
                             !.segments[idx + 1] = insert_pid(@, u.pid),
                             !.recovery = IF r # NoRecovery THEN r ELSE @]
             ELSE s1
        ELSE IF u.update = "Compact"
        THEN [s1 EXCEPT !.pt[u.pid] = <<at>>, !.keys = @ \cup {u.pid},
                        !.segments = [left EXCEPT ![idx + 1] = insert_pid(@, u.pid)],
                        !.recovery = IF r # NoRecovery THEN r ELSE @]
        ELSE IF u.update = "Free"
        THEN [s1 EXCEPT !.pt[u.pid] = <<>>, !.keys = @ \ {u.pid},
                        !.segments = [left EXCEPT ![idx + 1] = insert_pid(@, u.pid)],
                        !.free = Append(@, u.pid)]
        ELSE [s1 EXCEPT !.pt[u.pid] = <<>>, !.keys = @ \cup {u.pid},
                        !.segments[idx + 1] = insert_pid(@, u.pid),
                        !.free = Retain(@, u.pid)]

\* a loop that applies what the snapshot has applied before once more
ApplyUpdateAgain(s, it) == Apply(s, it)

\* the loop of advance_snapshot for one item of the log iterator: an item
\* at or below max_lsn is passed over
ApplyUpdate(s, it) == IF it.lsn <= s.max_lsn THEN s ELSE Apply(s, it)

RECURSIVE ApplyAll(_, _, _)
ApplyAll(s, items, stop_lsn) ==
    IF items = <<>> THEN s
    ELSE IF stop_lsn > 0 /\ Head(items).lsn > stop_lsn THEN s
    ELSE ApplyAll(ApplyUpdate(s, Head(items)), Tail(items), stop_lsn)

\* an advance_snapshot that started from no recovery state
BuildSnapshotDropsRecovery(snapshot, lg, stable_offset) ==
    LET start_lsn == snapshot.max_lsn - (snapshot.max_lsn % io_buf_size)
        built == ApplyAll([snapshot EXCEPT !.recovery = NoRecovery],
                          IterNext(lg, Max(start_lsn, 1), stable_offset), stable_offset)
    IN  [built EXCEPT !.free = SortDesc(@), !.last_segment = <<>>]

\* advance_snapshot from the old snapshot to the one it writes: the log is
\* iterated from the start of the segment of max_lsn up to the stable offset.
BuildSnapshot(snapshot, lg, stable_offset) ==
    LET start_lsn == snapshot.max_lsn - (snapshot.max_lsn % io_buf_size)
        built == ApplyAll(snapshot, IterNext(lg, Max(start_lsn, 1), stable_offset),
                          stable_offset)
    IN  [built EXCEPT !.free = SortDesc(@), !.last_segment = <<>>]

\* Log::flush: every buffer that no writer holds any more reaches the disk
flush == Max(stable, ResolvedPrefix(log, 0))

\* an advance_snapshot that goes on whether it got the lock or not
SnapshotFlushIgnoresLock(t) ==
    /\ At(t, "advance_snapshot", "s_flush")
    /\ stable' = flush
    /\ snap_lock' = t
    /\ sa' = [sa EXCEPT !.paused = TRUE]
    /\ Goto(t, [Top(t) EXCEPT !.pc = "s_build"], 0)
    /\ UNCHANGED <<pcVars, log, marks, cleans, last_snapshot, disk, lin>>
    /\ UNCHANGED calls
    /\ UNCHANGED iterVars

\* advance_snapshot: log.flush(), try_lock, snapshot_opt.take(), pause_rewriting
SnapshotFlush(t) ==
    /\ At(t, "advance_snapshot", "s_flush")
    /\ stable' = flush
    /\ IF snap_lock # 0
       THEN /\ Finish(t, Below(t), NoResult, 0)
            /\ UNCHANGED <<snap_lock, sa>>
       ELSE /\ snap_lock' = t
            /\ sa' = [sa EXCEPT !.paused = TRUE]
            /\ Goto(t, [Top(t) EXCEPT !.pc = "s_build"], 0)
    /\ UNCHANGED <<pcVars, log, marks, cleans, last_snapshot, disk, lin>>
    /\ UNCHANGED calls
    /\ UNCHANGED iterVars

\* advance_snapshot from the iteration on, as one step: the iteration,
\* write_snapshot, resume_rewriting and the store of the new snapshot, which
\* releases the lock.  Nothing but a holder of the lock reads what these
\* statements write, and a crash sees the file only.
SnapshotBuild(t) ==
    /\ At(t, "advance_snapshot", "s_build")
    /\ LET snapshot == BuildSnapshot(last_snapshot.v, log, stable)
       IN  /\ disk' = Some(snapshot)
           /\ sa' = [sa EXCEPT !.paused = FALSE]
           /\ last_snapshot' = Some(snapshot)
           /\ snap_lock' = 0
    /\ Finish(t, Below(t), NoResult, 0)
    /\ UNCHANGED <<pcVars, log, stable, marks, cleans, lin>>
    /\ UNCHANGED calls
    /\ UNCHANGED iterVars

\* an iteration that stores its snapshot while rewriting is still paused
SnapshotIterateStores(t) ==
    /\ At(t, "advance_snapshot", "s_build")
    /\ LET snapshot == BuildSnapshot(last_snapshot.v, log, stable)
       IN  /\ disk' = Some(snapshot)
           /\ last_snapshot' = Some(snapshot)
           /\ Goto(t, [Top(t) EXCEPT !.pc = "s_resume", !.snapshot = snapshot], 0)
    /\ UNCHANGED <<pcVars, logVars, snap_lock, lin>>
    /\ UNCHANGED calls
    /\ UNCHANGED iterVars

\* The same statements one by one.
\* advance_snapshot: the iteration over the log up to the stable offset,
\* the ordering of the free list, and write_snapshot
SnapshotIterate(t) ==
    /\ At(t, "advance_snapshot", "s_build")
    /\ LET snapshot == BuildSnapshot(last_snapshot.v, log, stable)
       IN  /\ disk' = Some(snapshot)
           /\ Goto(t, [Top(t) EXCEPT !.pc = "s_resume", !.snapshot = snapshot], 0)
    /\ UNCHANGED <<pcVars, logVars, last_snapshot, snap_lock, lin>>
    /\ UNCHANGED calls
    /\ UNCHANGED iterVars

\* advance_snapshot: sa.resume_rewriting()
SnapshotResume(t) ==
    /\ At(t, "advance_snapshot", "s_resume")
    /\ sa' = [sa EXCEPT !.paused = FALSE]
    /\ Goto(t, [Top(t) EXCEPT !.pc = "s_store"], 0)
    /\ UNCHANGED <<pcVars, log, stable, marks, cleans, snapVars, lin>>
    /\ UNCHANGED calls
    /\ UNCHANGED iterVars

\* advance_snapshot: *snapshot_opt = Some(snapshot), and the lock is
\* released as the guard goes out of scope
SnapshotStore(t) ==
    /\ At(t, "advance_snapshot", "s_store")
    /\ last_snapshot' = Some(Top(t).snapshot)
    /\ snap_lock' = 0
    /\ Finish(t, Below(t), NoResult, 0)
    /\ UNCHANGED <<pcVars, logVars, disk, lin>>
    /\ UNCHANGED calls
    /\ UNCHANGED iterVars

\* the log's writer: buffers that no writer holds any more reach the disk
Writeback ==
    /\ stable < ResolvedPrefix(log, 0)
    /\ stable' = flush
    /\ ret' = NoReturn
    /\ UNCHANGED <<pcVars, log, sa, marks, cleans, snapVars, th, lin>>
    /\ UNCHANGED calls
    /\ UNCHANGED iterVars

\* ---------------------------------------------------------- crash, recovery

\* load_snapshot: the stack of a page, top first: PartialFlush entries over
\* a Flush of the first lid
LoadedStack(lids) ==
    Reverse([i \in 1..Len(lids) |->
                IF i = 1 THEN Flush(lids[i][1], lids[i][2])
                ELSE PartialFlush(lids[i][1], lids[i][2])])

\* load_snapshot: inner.insert of a stack for every page of the snapshot
RECURSIVE LoadPages(_, _, _, _)
LoadPages(snapshot, lg, pid, acc) ==
    IF pid > MaxPid THEN acc
    ELSE IF pid \notin snapshot.keys THEN LoadPages(snapshot, lg, pid + 1, acc)
    ELSE LET lids == snapshot.pt[pid]
             stack == [es |-> LoadedStack(lids),
                       hist |-> [i \in 1..Len(lids) |-> lg[lids[i][2]].frag],
                       cons |-> lids # <<>>]
             stk == Append(acc.stacks, stack)
         IN  LoadPages(snapshot, lg, pid + 1,
                       [inner |-> [acc.inner EXCEPT ![pid] = Len(stk)], stacks |-> stk])

\* the live references SegmentAccountant::initialize_from_segments restores
LiveOf(snapshot) ==
    UNION {{<<p, snapshot.pt[p][i][2]>> : i \in 1..Len(snapshot.pt[p])} : p \in snapshot.keys}

\* PageCache::recover over the files a crash left: read_snapshot,
\* advance_snapshot, load_snapshot.  lg is the log on disk, dsk the newest
\* snapshot file.
Recovered(lg, dsk) ==
    LET read == IF dsk.some THEN dsk.v ELSE Snapshot0
        snapshot == BuildSnapshot(read, lg, Len(lg))
        loaded == LoadPages(snapshot, lg, 0, [inner |-> [p \in PageIds |-> 0], stacks |-> <<>>])
    IN  [snapshot |-> snapshot, inner |-> loaded.inner, stacks |-> loaded.stacks,
         max_pid |-> snapshot.max_pid, free |-> Reverse(SortDesc(snapshot.free)),
         recovery |-> snapshot.recovery]

\* The process dies: the log keeps what had reached the disk, at least the
\* stable prefix and at most what no writer held.  A new PageCache is made
\* over the same files and PageCache::recover runs.
CrashRecover ==
    /\ lin.crashes < MaxCrashes
    /\ \E k \in stable..ResolvedPrefix(log, 0) :
          LET lg == SubSeq(log, 1, k)
              r == Recovered(lg, disk)
          IN  /\ log' = lg
              /\ stable' = k
              /\ disk' = Some(r.snapshot)
              /\ last_snapshot' = Some(r.snapshot)
              /\ max_pid' = r.max_pid
              /\ free' = r.free
              /\ inner' = r.inner
              /\ stacks' = r.stacks
              /\ sa' = [live |-> LiveOf(r.snapshot), paused |-> FALSE]
              /\ ret' = Returned(1, Result("recover", 0, "Recovery", NoPtr, r.recovery, <<>>))
    /\ snap_lock' = 0
    /\ pending' = {}
    /\ updates' = 0
    /\ marks' = {}
    /\ th' = [t \in Threads |-> <<>>]
    /\ lin' = [lin EXCEPT !.crashes = @ + 1]
    /\ UNCHANGED cleans
    /\ UNCHANGED calls
    /\ UNCHANGED iterVars

\* ------------------------------------------------------- the log iterator
\*
\* Iter walks the log file itself.  A segment is segment_len bytes of the
\* file: a header, messages, a trailer.  The file is whatever a crash left:
\* what a read of a header, of a trailer or of a message returns is any of
\* the outcomes the reader has, and the same again when the same place is
\* read again.

SEG_HEADER_LEN == 1
SEG_TRAILER_LEN == 1
MSG_HEADER_LEN == 1

\* Option<T>: None is <<>>, Some(x) is <<x>>
IsNone(o) == o = <<>>
Unwrap(o) == o[1]

valid_entry_offset(lid) ==
    LET seg_start == (lid \div segment_len) * segment_len
        max_lid == seg_start + segment_len - SEG_TRAILER_LEN - MSG_HEADER_LEN
        min_lid == seg_start + SEG_HEADER_LEN
    IN  lid >= min_lid /\ lid <= max_lid

\* LogRead, with on_disk_len where it has one
LogReadOf(k, on_disk_len) == [k |-> k, on_disk_len |-> on_disk_len]

\* what read_message can return at offset `at` of a segment: a message it
\* reports lies within the segment, before the trailer
Fits(at, on_disk_len) ==
    at + MSG_HEADER_LEN + on_disk_len <= segment_len - SEG_TRAILER_LEN

LogReads(at) ==
    {LogReadOf(k, n) : k \in {"Flush", "Zeroed"}, n \in {m \in 0..MaxMsgLen : Fits(at, m)}}
        \cup {LogReadOf("Failed", 0), LogReadOf("Corrupted", 0), LogReadOf("Err", 0)}

\* a header and a trailer that could not be read
NoHeader == [k |-> "Err", lsn |-> 0]
NoTrailer == [k |-> "Err", ok |-> FALSE, lsn |-> 0]

\* what read_segment_header can return where the segment of lsn is expected:
\* an error, that segment, or a segment written there later
SegmentHeaders(lsn) ==
    {NoHeader, [k |-> "Ok", lsn |-> lsn], [k |-> "Ok", lsn |-> lsn + segment_len]}

\* what read_segment_trailer can return in the segment of lsn: an error, the
\* trailer of that segment, one that is not ok, or one of an earlier segment
SegmentTrailers(lsn) ==
    LET trailer_lsn == lsn + segment_len - SEG_TRAILER_LEN
    IN  {NoTrailer,
         [k |-> "Ok", ok |-> TRUE, lsn |-> trailer_lsn],
         [k |-> "Ok", ok |-> FALSE, lsn |-> trailer_lsn],
         [k |-> "Ok", ok |-> TRUE, lsn |-> trailer_lsn - segment_len]}

\* the part of the file that was read and can be read again: the message
\* under the cursor, and the trailer of the segment under the cursor
NoFile == [lid |-> -1, read |-> LogReadOf("", 0), trailer |-> NoTrailer]
read_message(fl, lid, rd) == IF fl.lid = lid THEN fl.read ELSE rd

\* no iterator
NoIter ==
    [segment_iter |-> <<>>, segment_base |-> <<>>, max_lsn |-> 0, cur_lsn |-> 0,
     trailer |-> <<>>, min_lsn |-> 0, pc |-> "off", ret |-> "", spins |-> 0, nones |-> 0]

\* Log::iter_from: the cursor starts at min_lsn, or at the first entry offset
\* of its segment when min_lsn lies in the segment header (advance_snapshot
\* passes the base of a segment); max_lsn is the stable offset.  min_lsn is
\* kept as a ghost.
iter_from(min_lsn, stable_offset, segments) ==
    LET segment_base_lsn == (min_lsn \div segment_len) * segment_len
        corrected_lsn == Max(min_lsn, segment_base_lsn + SEG_HEADER_LEN)
    IN  [NoIter EXCEPT !.segment_iter = segments, !.max_lsn = stable_offset,
                       !.cur_lsn = corrected_lsn, !.min_lsn = min_lsn, !.pc = "ready"]

\* a read_segment that takes every trailer it can read for the trailer of
\* the segment
read_segment_any_trailer(it, lsn, offset, header, trailer) ==
    IF header.k = "Err" \/ header.lsn # lsn
    THEN [ok |-> FALSE, it |-> it]
    ELSE [ok |-> TRUE,
          it |-> [it EXCEPT
                    !.trailer = IF trailer.k = "Ok" THEN <<trailer.lsn>> ELSE <<>>,
                    !.cur_lsn = header.lsn + SEG_HEADER_LEN,
                    !.segment_base = <<offset>>]]

\* Iter::read_segment with what the reads of header and trailer return
read_segment(it, lsn, offset, header, trailer) ==
    LET trailer_lsn == header.lsn + segment_len - SEG_TRAILER_LEN
    IN  IF header.k = "Err" \/ header.lsn # lsn
        THEN [ok |-> FALSE, it |-> it]
        ELSE [ok |-> TRUE,
              it |-> [it EXCEPT
                        !.trailer = IF trailer.k = "Ok" /\ trailer.ok /\ trailer.lsn = trailer_lsn
                                    THEN <<trailer.lsn>> ELSE <<>>,
                        !.cur_lsn = header.lsn + SEG_HEADER_LEN,
                        !.segment_base = <<offset>>]]

\* the outcome of one pass of the loop: the iterator, what is returned
\* ("": nothing yet, the loop goes on), the item, what was read where
PassOf(it, r, item, fl) == [it |-> it, ret |-> r, item |-> item, file |-> fl]

\* a pass that leaves the cursor at the flush message it returns
ReadPassFlushStays(it, fl, rd) ==
    LET lid == Unwrap(it.segment_base) + (it.cur_lsn % segment_len)
        read == read_message(fl, lid, rd)
        now == [fl EXCEPT !.lid = lid, !.read = read]
    IN  IF it.cur_lsn > it.max_lsn THEN PassOf(it, "None", <<>>, fl)
        ELSE IF it.max_lsn <= lid THEN PassOf(it, "None", <<>>, fl)
        ELSE IF read.k = "Flush"
        THEN PassOf(it, "Some",
                    <<[lsn |-> it.cur_lsn, lid |-> lid, on_disk_len |-> read.on_disk_len]>>, now)
        ELSE IF read.k = "Zeroed"
        THEN PassOf([it EXCEPT !.cur_lsn = @ + read.on_disk_len], "", <<>>, now)
        ELSE IF IsNone(it.trailer) THEN PassOf(it, "None", <<>>, now)
        ELSE PassOf([it EXCEPT !.segment_base = <<>>, !.trailer = <<>>], "", <<>>, now)

\* a pass that leaves a torn segment as it leaves a whole one
ReadPassSkipsTorn(it, fl, rd) ==
    LET lid == Unwrap(it.segment_base) + (it.cur_lsn % segment_len)
        read == read_message(fl, lid, rd)
        now == [fl EXCEPT !.lid = lid, !.read = read]
    IN  IF it.cur_lsn > it.max_lsn THEN PassOf(it, "None", <<>>, fl)
        ELSE IF it.max_lsn <= lid THEN PassOf(it, "None", <<>>, fl)
        ELSE IF read.k = "Flush"
        THEN PassOf([it EXCEPT !.cur_lsn = @ + MSG_HEADER_LEN + read.on_disk_len], "Some",
                    <<[lsn |-> it.cur_lsn, lid |-> lid, on_disk_len |-> read.on_disk_len]>>, now)
        ELSE IF read.k = "Zeroed"
        THEN PassOf([it EXCEPT !.cur_lsn = @ + read.on_disk_len], "", <<>>, now)
        ELSE PassOf([it EXCEPT !.segment_base = <<>>, !.trailer = <<>>], "", <<>>, now)

\* Iter::next, the second half of a pass: the end of the log, and the message
\* under the cursor
ReadPass(it, fl, rd) ==
    LET lid == Unwrap(it.segment_base) + (it.cur_lsn % segment_len)
        read == read_message(fl, lid, rd)
        now == [fl EXCEPT !.lid = lid, !.read = read]
    IN  IF it.cur_lsn > it.max_lsn THEN PassOf(it, "None", <<>>, fl)
        ELSE IF it.max_lsn <= lid THEN PassOf(it, "None", <<>>, fl)
        ELSE IF read.k = "Flush"
        THEN PassOf([it EXCEPT !.cur_lsn = @ + MSG_HEADER_LEN + read.on_disk_len], "Some",
                    <<[lsn |-> it.cur_lsn, lid |-> lid, on_disk_len |-> read.on_disk_len]>>, now)
        ELSE IF read.k = "Zeroed"
        THEN PassOf([it EXCEPT !.cur_lsn = @ + read.on_disk_len], "", <<>>, now)
        ELSE IF IsNone(it.trailer) THEN PassOf(it, "None", <<>>, now)
        ELSE PassOf([it EXCEPT !.segment_base = <<>>, !.trailer = <<>>], "", <<>>, now)

\* Iter::next, the first half of a pass: the end of a torn segment, and the
\* next segment when there is none under the cursor or it is at its end.
\* go: the pass goes on to read the message under the cursor.
SegmentPass(it, header, trailer) ==
    LET at_end == ~valid_entry_offset(it.cur_lsn)
        next == Head(it.segment_iter)
        taken == [it EXCEPT !.segment_iter = Tail(@)]
        seg == read_segment(taken, next[1], next[2], header, trailer)
        stay == [go |-> FALSE, seg |-> FALSE, it |-> it, ret |-> "None"]
    IN  IF IsNone(it.trailer) /\ at_end THEN stay
        ELSE IF IsNone(it.segment_base) \/ at_end
        THEN IF it.segment_iter = <<>> THEN stay
             ELSE IF next[1] + segment_len < it.cur_lsn
             THEN [stay EXCEPT !.it = taken, !.ret = "panic"]
             ELSE IF ~seg.ok THEN [stay EXCEPT !.it = taken]
             ELSE [go |-> TRUE, seg |-> TRUE, it |-> seg.it, ret |-> ""]
        ELSE [stay EXCEPT !.go = TRUE, !.ret = ""]

\* the pass reads the header of the next segment
TakesSegment(it) ==
    LET at_end == ~valid_entry_offset(it.cur_lsn)
    IN  /\ ~(IsNone(it.trailer) /\ at_end)
        /\ IsNone(it.segment_base) \/ at_end
        /\ it.segment_iter # <<>>

\* Iter::next, one pass of its loop
Pass(it, fl, header, trailer, rd) ==
    LET first == SegmentPass(it, header, trailer)
    IN  IF first.go
        THEN ReadPass(first.it, IF first.seg THEN [fl EXCEPT !.trailer = trailer] ELSE fl, rd)
        ELSE PassOf(first.it, first.ret, <<>>, fl)

\* One pass of the loop of Iter::next: the first pass of a call when the
\* pass before it returned.  A pass that changes nothing and returns
\* nothing is followed MaxSpins times, a None by MaxNones more calls.
IterPass ==
    /\ iter.pc = "ready"
    /\ iter.ret # "panic"
    /\ iter.spins < MaxSpins
    /\ iter.ret = "None" => iter.nones < MaxNones
    /\ LET it == [iter EXCEPT !.ret = "", !.spins = 0, !.nones = 0]
           lsn == IF it.segment_iter = <<>> THEN 0 ELSE Head(it.segment_iter)[1]
       IN  \E header \in IF TakesSegment(it) THEN SegmentHeaders(lsn) ELSE {NoHeader} :
           \E trailer \in IF TakesSegment(it) /\ header.k = "Ok" /\ header.lsn = lsn
                           THEN SegmentTrailers(lsn) ELSE {NoTrailer} :
           \E rd \in IF SegmentPass(it, header, trailer).go
                      THEN LogReads(SegmentPass(it, header, trailer).it.cur_lsn % segment_len)
                      ELSE {LogReadOf("", 0)} :
              LET p == Pass(it, file, header, trailer, rd)
              IN  /\ iter' = [p.it EXCEPT
                                !.ret = p.ret,
                                !.spins = IF p.ret = "" /\ p.it = it THEN iter.spins + 1 ELSE 0,
                                !.nones = IF p.ret = "None" /\ iter.ret = "None"
                                          THEN iter.nones + 1 ELSE 0]
                  /\ file' = p.file
                  /\ yielded' = IF p.item = <<>> THEN yielded
                                ELSE [last |-> p.item, n |-> Min(yielded.n + 1, MaxYielded)]
    /\ UNCHANGED <<pcVars, logVars, snapVars, th, ret, calls, lin>>

\* ------------------------------------------------------------ specification

\* The log an earlier run left on disk: none, or that of a run which
\* allocated page 0, linked two fragments to it and shut down.
EarlierLog ==
    LET l1 == complete(reserve(<<>>, LoggedUpdate(0, "Alloc", <<>>)), 1)
        l2 == complete(reserve(l1, LoggedUpdate(0, "Compact", Frag(1))), 2)
    IN  complete(reserve(l2, LoggedUpdate(0, "Append", Frag(2))), 3)

EarlierLogs == {<<>>, EarlierLog}

\* the log of an earlier run that allocated a second page and wrote nothing
\* to it
EarlierLogTwoPages ==
    complete(reserve(EarlierLog, LoggedUpdate(MaxPid, "Alloc", <<>>)), Len(EarlierLog) + 1)

\* PageCache::new, over no files; or over the log of an earlier run, and
\* then PageCache::recover
Started(lg, recording) ==
    /\ log = lg
    /\ stable = Len(lg)
    /\ IF lg = <<>>
       THEN /\ inner = [p \in PageIds |-> 0]
            /\ stacks = <<>>
            /\ max_pid = 0
            /\ free = <<>>
            /\ sa = [live |-> {}, paused |-> FALSE]
            /\ last_snapshot = None
            /\ disk = None
       ELSE LET r == Recovered(lg, None)
            IN  /\ inner = r.inner
                /\ stacks = r.stacks
                /\ max_pid = r.max_pid
                /\ free = r.free
                /\ sa = [live |-> LiveOf(r.snapshot), paused |-> FALSE]
                /\ last_snapshot = Some(r.snapshot)
                /\ disk = Some(r.snapshot)
    /\ pending = {}
    /\ updates = 0
    /\ snap_lock = 0
    /\ th = [t \in Threads |-> <<>>]
    /\ ret = NoReturn
    /\ cleans = 0
    /\ calls = 0
    /\ marks = {}
    /\ lin = [on |-> recording, h |-> {AbsPT(inner, stacks)}, crashes |-> 0]

\* no iterator over the file is at work
NoIterator ==
    /\ iter = NoIter
    /\ file = NoFile
    /\ yielded = [last |-> <<>>, n |-> 0]

Init == NoIterator /\ \E lg \in EarlierLogs : Started(lg, FALSE)

\* every step but those of advance_snapshot that follow the pause
Ops ==
    \/ \E t \in Threads :
          \/ Allocate(t)
          \/ AllocateLog(t)
          \/ \E pid \in Pids : Free(t, pid)
          \/ FreeReserve(t)
          \/ FreeSa(t)
          \/ FreeComplete(t)
          \/ \E pid \in Pids : GetCall(t, pid)
          \/ PageOutRead(t)
          \/ PageOutCas(t)
          \/ PageInFix(t)
          \/ \E pid \in Pids : \E old \in Olds(pid) : ReplaceCall(t, pid, old, Frag(calls + 3))
          \/ ReplaceReserve(t)
          \/ ReplaceCas(t)
          \/ ReplaceSa(t)
          \/ \E pid \in Pids : \E old \in Olds(pid) : LinkCall(t, pid, old, Frag(calls + 3))
          \/ LinkReserve(t)
          \/ LinkCap(t)
          \/ LinkSa(t)
          \/ CleanGet(t)
          \/ CleanReplace(t)
          \/ Complete(t)
          \/ SnapshotFlush(t)
    \/ EpochDrop
    \/ Writeback

Next ==
    \/ Ops
    \/ \E t \in Threads : SnapshotBuild(t)

Spec == Init /\ [][Next]_vars

\* the same program with advance_snapshot taken statement by statement
NextSteps ==
    \/ Ops
    \/ \E t \in Threads :
          \/ SnapshotIterate(t)
          \/ SnapshotResume(t)
          \/ SnapshotStore(t)

SpecSteps == Init /\ [][NextSteps]_vars

InitCrash == NoIterator /\ \E lg \in EarlierLogs : Started(lg, TRUE)

NextCrash == Next \/ CrashRecover

SpecCrash == InitCrash /\ [][NextCrash]_vars

\* a cache recovered with two pages, one of them empty
InitEvict == NoIterator /\ Started(EarlierLogTwoPages, FALSE)

SpecEvict == InitEvict /\ [][Next]_vars

\* --------------------------------------------- the log iterator on its own

\* where the segments of the log lie in the file: in the order they were
\* written, or the later one before the earlier (a segment that was reused)
SegmentLids ==
    {[k \in 0..(NumSegments - 1) |-> k * segment_len],
     [k \in 0..(NumSegments - 1) |-> ((k + 1) % NumSegments) * segment_len]}

\* what a segment iterator supplies: segments in ascending order of lsn
SegmentIters ==
    {SelectSeq([i \in 1..NumSegments |-> <<(i - 1) * segment_len, lids[i - 1]>>],
               LAMBDA seg : (seg[1] \div segment_len) \in S) :
        S \in SUBSET (0..(NumSegments - 1)), lids \in SegmentLids}

\* an iterator made by iter_from, over any file
InitIter ==
    /\ Started(<<>>, FALSE)
    /\ \E min_lsn \in 0..(NumSegments * segment_len - 1) :
       \E stable_offset \in min_lsn..(NumSegments * segment_len) :
       \E segments \in SegmentIters :
          iter = iter_from(min_lsn, stable_offset, segments)
    /\ file = NoFile
    /\ yielded = [last |-> <<>>, n |-> 0]

NextIter == IterPass

SpecIter == InitIter /\ [][NextIter]_vars

\* ------------------------------------------------------- properties: get

\* every result of a get that some thread holds or has just been handed
GetResults ==
    {ret.r} \cup UNION {{th[t][i].res : i \in 1..Len(th[t])} : t \in Threads}

\* C1: a get that returns Some((v, h)) returns v = merge(F), F being the
\* fragments, oldest first, whose CAS succeeded on the page since and
\* including its last successful replace, as of the head the get loaded.
GetReturnsMerge ==
    \A r \in GetResults :
        (r.op = "get" /\ r.k = "Some") => r.val = merge(r.hist)

\* a get returned the merge of an earlier run's fragments and of one linked
\* since, after the page was consolidated under it
GetReturnsMergeWitness ==
    /\ ret.r.op = "get"
    /\ ret.r.k = "Some"
    /\ Len(ret.r.hist) >= 3
    /\ ret.r.val = merge(ret.r.hist)
    /\ stacks[inner[ret.r.pid]].cons

\* ---------------------------------------------------- properties: stacks

StackIds == 1..Len(stacks)

\* C8: in every page stack the lsn of the entries strictly decreases from
\* top to bottom.
LsnStrictlyDecreasing ==
    \A sid \in StackIds :
        \A i, j \in 1..Len(stacks[sid].es) :
            i < j => stacks[sid].es[i].lsn > stacks[sid].es[j].lsn

\* a link was pushed over the entries load_snapshot made of two log messages
LsnStrictlyDecreasingWitness ==
    \E sid \in StackIds :
        /\ Len(stacks[sid].es) >= 3
        /\ stacks[sid].es[1].k = "Resident"
        /\ stacks[sid].es[2].k = "PartialFlush"
        /\ stacks[sid].es[3].k = "Flush"

MergedResidents(es) == {i \in 1..Len(es) : es[i].k = "MergedResident"}

\* C9: a page stack holds at most one MergedResident, no PartialFlush at
\* its bottom, a Flush at its bottom only; page_out never panics.
StackWellFormed ==
    /\ \A sid \in StackIds :
          LET es == stacks[sid].es
          IN  /\ Cardinality(MergedResidents(es)) <= 1
              /\ es # <<>> => Last(es).k # "PartialFlush"
              /\ \A i \in 1..Len(es) - 1 : es[i].k # "Flush"
    /\ \A t \in Threads : ~(Panicked(t) /\ Top(t).pc = "page_out")

\* page_out has rewritten a stack that held a MergedResident over a Flush
StackWellFormedWitness ==
    \E sid \in StackIds, t \in Threads :
        /\ At(t, "get", "g_pocas")
        /\ Top(t).po_head = HeadOf(sid)
        /\ Len(stacks[sid].es) >= 2
        /\ MergedResidents(stacks[sid].es) # {}
        /\ Last(stacks[sid].es).k = "Flush"

AllResident(es) == \A i \in 1..Len(es) : es[i].k = "Resident"

\* C10 as stated: the bottom entry of a page stack is Flush if the page was
\* ever consolidated, and else every entry is Resident.
BottomFlushOrAllResident ==
    \A sid \in StackIds :
        LET es == stacks[sid].es
        IN  es # <<>> =>
                IF stacks[sid].cons THEN Last(es).k = "Flush" ELSE AllResident(es)

\* C10, amended: the bottom entry of a consolidated page is the
\* MergedResident of the consolidation or a Flush; a stack whose bottom
\* entry is Resident holds only Resident entries.
BottomOfStack ==
    \A sid \in StackIds :
        LET es == stacks[sid].es
        IN  es # <<>> =>
                /\ stacks[sid].cons => Last(es).k \in {"MergedResident", "Flush"}
                /\ Last(es).k = "Resident" => AllResident(es)
                /\ Last(es).k \in {"Resident", "MergedResident", "Flush"}

\* a fragment was linked over the MergedResident a replace left at the bottom
BottomOfStackWitness ==
    \E sid \in StackIds :
        /\ stacks[sid].cons
        /\ Len(stacks[sid].es) >= 2
        /\ Last(stacks[sid].es).k = "MergedResident"

\* thread t took a step of its own
Moved(t) ==
    \/ Len(th'[t]) # Len(th[t])
    \/ th[t] # <<>> /\ th'[t] # <<>> /\ Last(th'[t]).pc # Top(t).pc

\* --------------------------------------------------- properties: page_out

\* what a get of the page with stack sid reads from the log, and whether
\* the log holds all of it
PullsOf(sid) == ToPull(Scan(StackIter(sid), Scan0))
Readable(sid) == \A i \in 1..Len(PullsOf(sid)) : PullOk(PullsOf(sid)[i])

\* the value a get of the page with stack sid returns
PageValue(sid) ==
    LET st == Scan(StackIter(sid), Scan0)
        fetched == [i \in 1..Len(PullsOf(sid)) |-> pull(PullsOf(sid)[i])]
    IN  IF st.short THEN st.frag ELSE merge(Combined(st.to_merge, fetched))

AtCas(t) == At(t, "link", "l_cap") \/ At(t, "replace", "r_cas")

\* C6: a link or a replace whose expected head is not the head of the page
\* returns Err(Some(actual head)), aborts its reservation, leaves the stacks
\* and the segment accountant as they are and does not count as an update.
CasFailureChangesNothing ==
    [][\A t \in Threads :
          (/\ AtCas(t)
           /\ ~IsHead(Top(t).old, Top(t).sid)
           /\ Len(th'[t]) < Len(th[t]))
          => /\ log' = [log EXCEPT ![Top(t).lsn].kind = "zeroed",
                                   ![Top(t).lsn].flushed = TRUE,
                                   ![Top(t).lsn].exits = 1]
             /\ stacks' = stacks
             /\ inner' = inner
             /\ sa' = sa
             /\ marks' = marks
             /\ updates' = updates
             /\ Len(th[t]) = 1 =>
                   ret' = Returned(t, Result(Top(t).fn, Top(t).pid, "ErrSome",
                                             HeadOf(Top(t).sid), <<>>, <<>>))]_vars

\* a link lost against a head that is not null: its reservation is zeroed
CasFailureWitness ==
    /\ ret.t # 0
    /\ ret.r.op = "link"
    /\ ret.r.k = "ErrSome"
    /\ ~ret.r.head.null
    /\ \E lsn \in 1..Len(log) : log[lsn].kind = "zeroed" /\ log[lsn].update = "Append"

\* C7: get, link and replace on a pid that is not in the page table return
\* None, Err(None) and Err(None) at once: nothing is reserved, and the page
\* table, the stacks, the segment accountant and the update counter stay.
AbsentPidChangesNothing ==
    [][\A t \in Threads :
          Idle(t) =>
             /\ (th'[t] # <<>> /\ th'[t][1].fn \in {"get", "link", "replace"})
                   => inner[th'[t][1].pid] # 0
             /\ (/\ ret'.t = t
                 /\ ret'.r.op \in {"get", "link", "replace"}
                 /\ inner[ret'.r.pid] = 0)
                   => /\ ret'.r.k = IF ret'.r.op = "get" THEN "None" ELSE "ErrNone"
                      /\ UNCHANGED <<log, inner, stacks, sa, marks, updates>>]_vars

\* a replace of a page that was freed has returned Err(None)
AbsentPidWitness ==
    /\ ret.t # 0
    /\ ret.r.op = "replace"
    /\ ret.r.k = "ErrNone"
    /\ inner[ret.r.pid] = 0
    /\ \E lsn \in 1..Len(log) : log[lsn].update = "Free" /\ log[lsn].pid = ret.r.pid

\* ------------------------------------ properties: the segment accountant

\* the reservation at lsn is completed by the step
CompletedInStep(lsn) ==
    /\ lsn \in 1..Len(log')
    /\ log'[lsn].kind = "flush"
    /\ lsn > Len(log) \/ log[lsn].kind = "reserved"

\* C5: when the reservation of an update (Alloc, Free, Append, Compact) is
\* completed, sa.mark_link or sa.mark_replace has been called for it.
SaBeforeComplete ==
    [][\A lsn \in 1..MaxLog : CompletedInStep(lsn) => lsn \in marks]_vars

\* -------------------------------------------------- properties: recovery

\* the step is a crash followed by PageCache::recover
Crashing == lin'.crashes = lin.crashes + 1

\* the entries of the page table of pid
Entries(inn, stk, pid) ==
    IF inn[pid] = 0 THEN {}
    ELSE {<<stk[inn[pid]].es[i].lsn, stk[inn[pid]].es[i].lid>> :
              i \in 1..Len(stk[inn[pid]].es)}

\* C2: an update that succeeded, was made stable and is in the page table
\* when the process crashes (no replace and no free superseded it) is in
\* the page table that recover builds.
NoLostDurableUpdate ==
    [][Crashing =>
          \A pid \in Pids : \A at \in Entries(inner, stacks, pid) :
              (at[1] <= stable /\ log[at[1]].kind = "flush")
                  => at \in Entries(inner', stacks', pid)]_vars

RecoversPrefix ==
    [][Crashing =>
          /\ AbsPT(inner', stacks') \in lin.h
          /\ LET r == Recovered(log', disk')
             IN  /\ r.inner = inner'
                 /\ r.stacks = stacks'
                 /\ r.snapshot = last_snapshot'.v
                 /\ r.free = free'
                 /\ r.max_pid = max_pid']_vars

\* ----------------------------------------------- properties: reservations

\* thread t holds the reservation at lsn in one of its activations
Holds(t, lsn) == \E i \in 1..Len(th[t]) : th[t][i].resv = lsn

\* C11: a Reservation that is dropped without complete or abort (its thread
\* panicked) is aborted: its slice is zeroed and the buffer is left.  Over
\* its lifetime exit_reservation is called once for every reservation: not
\* at all while it is pending in the hands of a thread, once when it has
\* been completed, aborted or dropped.
ReservationExitsOnce ==
    [][/\ \A lsn \in 1..Len(log') :
             /\ log'[lsn].exits = IF log'[lsn].kind = "reserved" THEN 0 ELSE 1
             /\ log'[lsn].flushed <=> log'[lsn].kind # "reserved"
             /\ log'[lsn].kind = "reserved" => \E t \in Threads : Holds(t, lsn)'
       /\ \A t \in Threads : \A lsn \in 1..Len(log) :
             (Holds(t, lsn) /\ log[lsn].kind = "reserved" /\ Panicked(t)')
                 => log'[lsn].kind = "zeroed"]_vars

\* a thread panicked after the CAS of its link had succeeded: its
\* reservation was dropped and is zeroed, its entry is in the stack
ReservationExitsOnceWitness ==
    \E t \in Threads : \E lsn \in 1..Len(log) : \E sid \in StackIds :
        /\ Panicked(t)
        /\ log[lsn].kind = "zeroed"
        /\ log[lsn].exits = 1
        /\ \E i \in 1..Len(stacks[sid].es) : stacks[sid].es[i].lsn = lsn

\* ------------------------------- properties: reservations of the writers

\* the update of activation f took effect: free always deletes the page,
\* link and replace_recurse_once when their compare-and-swap succeeded
TookEffect(f) == f.fn = "free" \/ f.result.k = "Ok"

\* C16: when an activation of link, replace_recurse_once or free that took
\* a log reservation returns, the reservation has left the buffer exactly
\* once: completed if the update took effect, aborted if the
\* compare-and-swap failed.  The compare-and-swap itself either installs
\* the reserved entry as the head and leaves the reservation pending for
\* the completion that follows, or installs nothing and aborts at once.
ReservationResolvedOnReturn ==
    [][\A t \in Threads :
          /\ \A i \in 1..Len(th[t]) :
                LET f == th[t][i]
                IN  (/\ f.fn \in {"link", "replace", "free"}
                     /\ f.lsn # 0
                     /\ i > Len(th'[t])
                     /\ ~Panicked(t)')
                        => /\ log'[f.lsn].exits = 1
                           /\ log'[f.lsn].kind = IF TookEffect(f) THEN "flush" ELSE "zeroed"
          /\ (AtCas(t) /\ Moved(t) /\ ~Panicked(t)')
                => LET f == Top(t)
                   IN  IF IsHead(f.old, f.sid)
                       THEN /\ Len(th'[t]) = Len(th[t])
                            /\ Head(stacks'[f.sid].es).lsn = f.lsn
                            /\ Last(th'[t]).result.k = "Ok"
                            /\ log'[f.lsn].kind = "reserved"
                       ELSE /\ Len(th'[t]) < Len(th[t])
                            /\ f.result.k # "Ok"
                            /\ stacks' = stacks
                            /\ log'[f.lsn].kind = "zeroed"]_vars

\* a link has just returned Ok with its Append flushed, after another
\* writer's compare-and-swap had failed and its reservation was aborted
ReservationResolvedOnReturnWitness ==
    /\ ret.t # 0
    /\ ret.r.op = "link"
    /\ ret.r.k = "Ok"
    /\ \E l1, l2 \in 1..Len(log) :
          /\ log[l1].kind = "zeroed" /\ log[l1].exits = 1
          /\ log[l2].kind = "flush" /\ log[l2].update = "Append" /\ log[l2].exits = 1
          /\ log[l2].pid = ret.r.pid
    /\ \A t \in Threads : ~Panicked(t)

\* ------------------------------------------------- properties: segments

\* the segment accountant holds page pid live in the segment of lid
SaHoldsLive(pid, lid) ==
    \E x \in sa.live : x[1] = pid /\ x[2] \div io_buf_size = lid \div io_buf_size

\* the segments of the snapshot hold page pid live in the segment of lid,
\* and that segment is not free
SnapshotHoldsLive(snapshot, pid, lid) ==
    LET idx == lid \div io_buf_size
    IN  /\ idx + 1 <= Len(snapshot.segments)
        /\ snapshot.segments[idx + 1].state \in {"active", "inactive", "draining"}
        /\ pid \in snapshot.segments[idx + 1].pids

\* every (pid, lid) of the page table of the last snapshot is held live
SnapshotSegmentsHoldPages ==
    last_snapshot.some =>
        \A pid \in last_snapshot.v.keys :
            \A i \in 1..Len(last_snapshot.v.pt[pid]) :
                SnapshotHoldsLive(last_snapshot.v, pid, last_snapshot.v.pt[pid][i][2])

FreedPidReusedOnce ==
    [][/\ \A t \in Threads :
             (At(t, "free", "f_complete") /\ Idle(t)')
                 => /\ free' = free
                    /\ Top(t).pid \notin pending
                    /\ Top(t).pid \notin Range(free)
                    /\ pending' = pending \cup {Top(t).pid}
       /\ Len(free') > Len(free)
             => \E pid \in pending :
                   /\ free' = <<pid>> \o free
                   /\ pid \notin Range(free)
                   /\ pending' = pending \ {pid}
       /\ \A t \in Threads :
             (Idle(t) /\ At(t, "allocate", "a_log")')
                 => IF free # <<>>
                    THEN /\ Top(t)'.pid = Head(free)
                         /\ free' = Tail(free)
                         /\ max_pid' = max_pid
                    ELSE /\ Top(t)'.pid = max_pid
                         /\ max_pid' = max_pid + 1]_vars

\* allocate has returned the pid of a page that was freed, max_pid standing
FreedPidReusedOnceWitness ==
    /\ ret.t # 0
    /\ ret.r.op = "allocate"
    /\ ret.r.pid < max_pid
    /\ free = <<>>
    /\ pending = {}
    /\ \E lsn \in 1..Len(log) :
          /\ log[lsn].update = "Free" /\ log[lsn].pid = ret.r.pid /\ log[lsn].kind = "flush"
          /\ \E l2 \in (lsn + 1)..Len(log) : log[l2].update = "Alloc" /\ log[l2].pid = ret.r.pid

\* ------------------------------------------------- properties: snapshots

\* the threads that are building a snapshot
Builders ==
    {t \in Threads : th[t] # <<>> /\ Top(t).fn = "advance_snapshot" /\ Top(t).pc # "s_flush"}

\* C14: at most one thread builds a snapshot at a time, the one that holds
\* the lock; an advance_snapshot that finds the lock busy returns and has
\* not paused rewriting, written no snapshot file and left last_snapshot.
OneSnapshotBuilder ==
    [][/\ Cardinality(Builders') <= 1
       /\ \A t \in Threads : t \in Builders' <=> snap_lock' = t
       /\ \A t \in Threads :
             (/\ At(t, "advance_snapshot", "s_flush")
              /\ snap_lock # 0
              /\ th'[t] # th[t])
                 => /\ Len(th'[t]) < Len(th[t])
                    /\ sa' = sa
                    /\ disk' = disk
                    /\ last_snapshot' = last_snapshot
                    /\ snap_lock' = snap_lock]_vars

\* a link or replace whose update was due to snapshot has returned while
\* another thread holds the snapshot lock
OneSnapshotBuilderWitness ==
    /\ ret.t # 0
    /\ ret.r.k = "Ok"
    /\ snap_lock \notin {0, ret.t}
    /\ updates % snapshot_after_ops = 0
    /\ sa.paused

\* ------------------------------ properties: the steps of advance_snapshot

\* thread t is in advance_snapshot at pc
Snapshotting(t, pc) == At(t, "advance_snapshot", pc)

\* thread t has paused rewriting and not resumed it yet
Iterating(t) == Snapshotting(t, "s_build") \/ Snapshotting(t, "s_resume")

\* C18: rewriting is paused by the thread that got the snapshot lock,
\* before it reads the log, and is paused throughout the iteration; it is
\* resumed by that thread, once, after the iteration and write_snapshot;
\* nobody else pauses or resumes in between; and last_snapshot changes
\* only in the step after the resume, to the snapshot that was built.
PauseIterateResumeStore ==
    [][/\ sa'.paused <=> \E t \in Threads : Iterating(t)'
       /\ \A t \in Threads :
             (Snapshotting(t, "s_build") /\ Moved(t))
                => /\ sa.paused /\ sa'.paused
                   /\ Snapshotting(t, "s_resume")'
                   /\ last_snapshot' = last_snapshot
       /\ (~sa.paused /\ sa'.paused)
             => \E t \in Threads :
                   /\ Snapshotting(t, "s_flush") /\ Snapshotting(t, "s_build")'
                   /\ snap_lock = 0 /\ snap_lock' = t
       /\ (sa.paused /\ ~sa'.paused)
             => \E t \in Threads :
                   /\ Snapshotting(t, "s_resume") /\ Snapshotting(t, "s_store")'
                   /\ snap_lock = t /\ snap_lock' = t
                   /\ last_snapshot' = last_snapshot
       /\ \A t \in Threads :
             (Snapshotting(t, "s_store") /\ Moved(t))
                => /\ ~sa.paused
                   /\ last_snapshot' = Some(Top(t).snapshot)
                   /\ snap_lock' = 0
       /\ last_snapshot' # last_snapshot
             => \E t \in Threads : Snapshotting(t, "s_store") /\ Moved(t)]_vars

\* rewriting has been resumed and the snapshot that was built, which has
\* applied more of the log than the last one, is not stored yet
PauseIterateResumeStoreWitness ==
    \E t \in Threads :
        /\ Snapshotting(t, "s_store")
        /\ ~sa.paused
        /\ snap_lock = t
        /\ Top(t).snapshot.max_lsn > last_snapshot.v.max_lsn
        /\ disk = Some(Top(t).snapshot)

\* ------------------------------- properties: what a snapshot has applied

LogItem(lg, lsn) == [lsn |-> lsn, lid |-> LidOf(lsn), bytes |-> lg[lsn]]

\* snapshot s after the messages of lg from lsn up to hi, each applied once
RECURSIVE ApplyRange(_, _, _, _)
ApplyRange(s, lg, lsn, hi) ==
    IF lsn > hi \/ lsn > Len(lg) THEN s
    ELSE ApplyRange(IF lg[lsn].kind = "flush" THEN Apply(s, LogItem(lg, lsn)) ELSE s,
                    lg, lsn + 1, hi)

\* no position of the log is in the page table of the snapshot twice
AppliedOnce(snapshot) ==
    \A pid \in snapshot.keys :
        LET lids == snapshot.pt[pid]
        IN  \A i, j \in 1..Len(lids) : i < j => lids[i][1] < lids[j][1]

FreeListSortedNoDup ==
    disk.some =>
        LET f == disk.v.free
        IN  \A i, j \in 1..Len(f) : i < j => f[i] > f[j]

\* ------------------------------------------ properties: recovery state

\* the message at lsn is one the snapshot applies: a Compact, or an Append
\* to a page that an earlier Alloc or Compact put in the page table and
\* that no Free has removed since
AppliedUpdate(lg, lsn) ==
    /\ lg[lsn].kind = "flush"
    /\ \/ lg[lsn].update = "Compact"
       \/ /\ lg[lsn].update = "Append"
          /\ \E j \in 1..(lsn - 1) :
                /\ lg[j].kind = "flush"
                /\ lg[j].pid = lg[lsn].pid
                /\ lg[j].update \in {"Alloc", "Compact"}
                /\ \A k \in (j + 1)..(lsn - 1) :
                      ~(lg[k].kind = "flush" /\ lg[k].pid = lg[lsn].pid /\ lg[k].update = "Free")

\* the recovery state of the applied message of highest lsn that has one
LatestRecovery(lg) ==
    LET S == {lsn \in 1..Len(lg) : AppliedUpdate(lg, lsn) /\ recover(lg[lsn].frag) # NoRecovery}
    IN  IF S = {} THEN NoRecovery
        ELSE recover(lg[CHOOSE lsn \in S : \A other \in S : other <= lsn].frag)

\* C15: recover returns what Materializer::recover made of the applied
\* Append or Compact of highest lsn for which it made something, also when
\* that message was applied by an earlier snapshot; and None only if there
\* is no such message.
RecoverReturnsLatest ==
    [][Crashing => ret'.r.val = LatestRecovery(log')]_vars

\* recover returned the recovery state of a fragment written in this run,
\* and a later applied fragment carries none
RecoverReturnsLatestWitness ==
    /\ ret.r.op = "recover"
    /\ ret.r.val = Frag(4)
    /\ \E l1, l2 \in 1..Len(log) :
          /\ l1 < l2
          /\ log[l1].frag = Frag(4) /\ AppliedUpdate(log, l1)
          /\ log[l2].frag = Frag(5) /\ AppliedUpdate(log, l2)

\* ------------------------------------------- properties of the log iterator

\* the offset in the file of the message under the cursor
Lid(it) == Unwrap(it.segment_base) + (it.cur_lsn % segment_len)

\* the pass that starts here reads the message under the cursor
Reads(it) ==
    /\ ~IsNone(it.segment_base)
    /\ valid_entry_offset(it.cur_lsn)
    /\ it.cur_lsn <= it.max_lsn
    /\ Lid(it) < it.max_lsn

\* a message that could not be read
Failure(read) == read.k \in {"Failed", "Corrupted", "Err"}

\* the segment under the cursor has a valid trailer with the expected lsn
WholeSegment(it, fl) ==
    /\ fl.trailer.k = "Ok"
    /\ fl.trailer.ok
    /\ fl.trailer.lsn =
         (it.cur_lsn \div segment_len) * segment_len + segment_len - SEG_TRAILER_LEN

\* where the iterator is in the log
CursorOf(it) == <<it.segment_iter, it.segment_base, it.cur_lsn, it.trailer>>

\* C21: a read failure inside a whole segment (valid trailer with the
\* expected lsn) abandons the segment, and the pass after it takes the next
\* segment the segment iterator supplies (and abandons it in turn when it
\* is whole and its first message cannot be read); in a torn segment (no
\* such trailer) a read failure, and the end of the segment, make this call
\* and every later call return None with the iterator left where it is.
WholeAbandonsTornStops ==
    [][/\ (Reads(iter) /\ WholeSegment(iter, file) /\ Failure(file'.read))
            => /\ iter'.ret = ""
               /\ IsNone(iter'.segment_base)
               /\ iter'.segment_iter = iter.segment_iter
               /\ yielded' = yielded
       /\ (/\ IsNone(iter.segment_base)
           /\ valid_entry_offset(iter.cur_lsn)
           /\ iter.ret = ""
           /\ iter.segment_iter # <<>>)
            => /\ iter'.segment_iter = Tail(iter.segment_iter)
               /\ \/ iter'.segment_base = <<Head(iter.segment_iter)[2]>>
                  \/ iter'.ret \in {"None", "panic"}
                  \/ /\ IsNone(iter'.segment_base)
                     /\ iter'.ret = ""
                     /\ WholeSegment(iter', file')
                     /\ Failure(file'.read)
       /\ (/\ ~IsNone(iter.segment_base)
           /\ ~WholeSegment(iter, file)
           /\ \/ ~valid_entry_offset(iter.cur_lsn)
              \/ Reads(iter) /\ Failure(file'.read))
            => /\ iter'.ret = "None"
               /\ CursorOf(iter') = CursorOf(iter)
               /\ yielded' = yielded]_vars

\* a message of the first of two segments could not be read, the segment was
\* whole and is abandoned, the next one is not taken yet
WholeAbandonsTornStopsWitness ==
    /\ iter.pc = "ready"
    /\ iter.ret = ""
    /\ IsNone(iter.segment_base)
    /\ Failure(file.read)
    /\ WholeSegment(iter, file)
    /\ iter.segment_iter # <<>>

\* the iterator is in a torn segment, at a message the pass that starts here
\* reads
InTorn(it) == IsNone(it.trailer) /\ Reads(it)

\* C22 as stated: having stopped at an unreadable message of a torn segment,
\* the iterator goes on to the next segment the segment iterator supplies.
TornThenNextSegment ==
    [][(InTorn(iter) /\ iter.ret = "None" /\ Failure(file.read) /\ file.lid = Lid(iter)
            /\ iter.segment_iter # <<>>)
         => iter'.segment_iter = Tail(iter.segment_iter)]_vars

\* C22: in a torn segment the iterator stops at the first message that
\* cannot be read: the call returns None, and so does every later call;
\* the cursor stays at that message, no segment is taken from the segment
\* iterator and nothing more is yielded.
TornStopsAtUnreadable ==
    [][(InTorn(iter) /\ Failure(file'.read))
         => /\ iter'.ret = "None"
            /\ iter'.cur_lsn = iter.cur_lsn
            /\ iter'.segment_base = iter.segment_base
            /\ iter'.segment_iter = iter.segment_iter
            /\ IsNone(iter'.trailer)
            /\ yielded' = yielded]_vars

\* next returned None twice at an unreadable message of a torn segment, and
\* the segment iterator still has a segment
TornStopsAtUnreadableWitness ==
    /\ InTorn(iter)
    /\ Failure(file.read) /\ file.lid = Lid(iter)
    /\ iter.ret = "None"
    /\ iter.nones = MaxNones
    /\ iter.segment_iter # <<>>

\* C23: a pass that reads a zeroed message of on-disk length n at cursor c
\* leaves the cursor at c + MSG_HEADER_LEN + n and yields nothing; a pass
\* that reads a flush message of on-disk length n leaves the cursor at
\* c + MSG_HEADER_LEN + n and yields that message and no other.
StrideOverEveryKind ==
    [][/\ (Reads(iter) /\ file'.read.k = "Zeroed")
            => /\ iter'.cur_lsn = iter.cur_lsn + MSG_HEADER_LEN + file'.read.on_disk_len
               /\ yielded' = yielded
       /\ (Reads(iter) /\ file'.read.k = "Flush")
            => /\ iter'.cur_lsn = iter.cur_lsn + MSG_HEADER_LEN + file'.read.on_disk_len
               /\ iter'.ret = "Some"
               /\ yielded'.last = <<[lsn |-> iter.cur_lsn, lid |-> Lid(iter),
                                     on_disk_len |-> file'.read.on_disk_len]>>]_vars

\* the lsn of the first message of the segment lsn lies in
FirstEntryLsn(lsn) == (lsn \div segment_len) * segment_len + SEG_HEADER_LEN

\* C24 as stated: the items come in strictly increasing order of lsn, none
\* lies beyond max_lsn and none below min_lsn.
YieldsFromMinLsn ==
    [][yielded' # yielded
         => /\ yielded.n > 0 => yielded'.last[1].lsn > yielded.last[1].lsn
            /\ yielded'.last[1].lsn <= iter.max_lsn
            /\ yielded'.last[1].lsn >= iter.min_lsn]_vars

\* C24: the items come in strictly increasing order of lsn, none lies
\* beyond max_lsn, and none lies before the first message of the segment
\* min_lsn lies in: that segment is read from its start.
YieldsFromSegmentOfMinLsn ==
    [][yielded' # yielded
         => /\ yielded.n > 0 => yielded'.last[1].lsn > yielded.last[1].lsn
            /\ yielded'.last[1].lsn <= iter.max_lsn
            /\ yielded'.last[1].lsn >= FirstEntryLsn(iter.min_lsn)]_vars

\* an iterator made behind the first message of a segment has yielded a
\* message of that segment from before min_lsn, and then one of the next
\* segment
YieldsFromSegmentOfMinLsnWitness ==
    /\ iter.min_lsn > FirstEntryLsn(iter.min_lsn)
    /\ iter.min_lsn < segment_len
    /\ yielded.n >= 2
    /\ yielded.last[1].lsn >= segment_len
    /\ iter.ret = "Some"

\* next returned None in a torn segment or with no segment left
StoppedForGood(it) ==
    /\ it.ret = "None"
    /\ \/ it.segment_iter = <<>>
       \/ ~IsNone(it.segment_base) /\ IsNone(it.trailer)

\* every call that follows a None of that kind returns None
NoneStays ==
    [][StoppedForGood(iter) => iter'.ret = "None" /\ yielded' = yielded]_vars

\* C25: every call of next returns after finitely many passes of its loop:
\* a pass that does not return moves the iterator on (what is read at an
\* offset is read there again, so a pass that returns nothing and moves
\* nothing is repeated for ever); and a call that follows a None returned
\* in a torn segment or with no segment left returns None.
NextReturns ==
    [][/\ iter'.ret = "" => CursorOf(iter') # CursorOf(iter)
       /\ StoppedForGood(iter) => iter'.ret = "None" /\ yielded' = yielded]_vars

\* --------------------------------------------------- properties: page_in

\* thread t is where page_in decides between consolidation, fix-up and
\* neither, and takes that step
Decides(t) == At(t, "get", "g_fix") /\ Moved(t)

\* page_in calls replace_recurse_once(pid, head, merged, scope, true)
Consolidates(t) ==
    \/ inner[Top(t).pid] = 0
    \/ /\ Len(th'[t]) = Len(th[t]) + 1
       /\ Last(th'[t]).fn = "replace"
       /\ Last(th'[t]).recursed
       /\ Last(th'[t]).new = Top(t).merged
       /\ Last(th'[t]).old = Top(t).head

\* the compare-and-swap of page_in: the compact stack if the head is the
\* one that was read, nothing otherwise
FixesUp(t) ==
    \A s \in StackIds :
        s = Top(t).sid =>
            IF Top(t).head.ok
            THEN stacks'[s].es = FixUp(Top(t).lids, Top(t).merged)
            ELSE stacks' = stacks

\* C26 as stated: the fix-up is made when a fragment was pulled or more
\* than cache_fixup_threshold entries were traversed above the first
\* MergedResident.
FixUpAboveThreshold ==
    [][\A t \in Threads :
         Decides(t) =>
            IF Len(Top(t).lids) > page_consolidation_threshold
            THEN Consolidates(t) /\ stacks' = stacks
            ELSE IF Top(t).fetched \/ Top(t).fix_up_length > cache_fixup_threshold
            THEN FixesUp(t)
            ELSE stacks' = stacks]_vars

\* C26: page_in calls replace_recurse_once with the merged page when it
\* traversed more than page_consolidation_threshold entries; otherwise it
\* swaps in [MergedResident, PartialFlush*, Flush] exactly when a fragment
\* was pulled from the log or at least cache_fixup_threshold entries were
\* traversed above the first MergedResident (the swap fails when the head
\* has changed); in every other case it leaves the stack as it is.
FixUpFromThreshold ==
    [][\A t \in Threads :
         Decides(t) =>
            IF Len(Top(t).lids) > page_consolidation_threshold
            THEN Consolidates(t) /\ stacks' = stacks
            ELSE IF Top(t).fetched \/ Top(t).fix_up_length >= cache_fixup_threshold
            THEN FixesUp(t)
            ELSE stacks' = stacks]_vars

\* a get that pulled nothing and traversed exactly cache_fixup_threshold
\* entries above a MergedResident is about to fix the page up
FixUpFromThresholdWitness ==
    \E t \in Threads :
        /\ At(t, "get", "g_fix")
        /\ ~Top(t).fetched
        /\ Top(t).fix_up_length = cache_fixup_threshold
        /\ Len(Top(t).lids) <= page_consolidation_threshold
        /\ Top(t).head.ok

\* -------------------------------------------------- properties: recursion

\* the frames of thread t that are activations of link or of
\* replace_recurse_once, and those that read or write a page
Writes(t) == {i \in 1..Len(th[t]) : th[t][i].fn \in {"link", "replace"}}
Accesses(t) == {i \in 1..Len(th[t]) : th[t][i].fn \in {"link", "replace", "get"}}

WriteSucceeds(t) ==
    /\ At(t, "replace", "r_cas") \/ At(t, "link", "l_cap")
    /\ Moved(t)
    /\ th'[t] # <<>>
    /\ Last(th'[t]).result.k = "Ok"

\* the log holds no Append or Compact of a page above a Free of that page
\* without an Alloc of it in between
NoUpdateAboveFree(lg) ==
    \A l1, l2 \in 1..Len(lg) :
        (/\ l1 < l2
         /\ lg[l1].kind = "flush" /\ lg[l1].update = "Free"
         /\ lg[l2].kind = "flush" /\ lg[l2].update \in {"Append", "Compact"}
         /\ lg[l2].pid = lg[l1].pid)
            => \E k \in (l1 + 1)..(l2 - 1) :
                  lg[k].kind = "flush" /\ lg[k].update = "Alloc" /\ lg[k].pid = lg[l1].pid

\* C28: the compare-and-swap of a link or a replace succeeds only on the
\* stack the page table holds for the page, never on one that free has
\* removed; and the log holds no Append or Compact of a page above a Free
\* of it without an Alloc in between.
NoWriteOnceFreed ==
    /\ [][\A t \in Threads :
            WriteSucceeds(t) =>
                \A sid \in StackIds : sid = Top(t).sid => inner[Top(t).pid] = sid]_vars
    /\ []NoUpdateAboveFree(log)

\* --------------------------------------------------- properties: allocate

\* the snapshots the cache holds: the last one made and the one on disk
Snapshots == {s \in {last_snapshot, disk} : s.some}

\* C29: inner.insert never fails in allocate, so allocate never returns a
\* pid that is in the page table, after recover() either; in every snapshot
\* no pid is a key of the page table and a member of the free list, and
\* max_pid is greater than every pid of the page table and of the free list.
AllocatesUnusedPid ==
    /\ \A t \in Threads : ~At(t, "panic", "insert")
    /\ \A s \in Snapshots :
          /\ \A i \in 1..Len(s.v.free) : s.v.free[i] \notin s.v.keys
          /\ \A p \in s.v.keys : p < s.v.max_pid
          /\ \A i \in 1..Len(s.v.free) : s.v.free[i] < s.v.max_pid

\* ------------------------------------------ properties: paged-out entries

\* C30: every PartialFlush and every Flush entry of a page of the page
\* table has an lsn that is not above the stable offset of the log, and its
\* reservation has been completed: what a pull of it reads has been written.
PagedOutIsStable ==
    \A p \in Pids :
        inner[p] # 0 =>
            \A i \in 1..Len(StackIter(inner[p])) :
                LET e == StackIter(inner[p])[i]
                IN  e.k \in {"PartialFlush", "Flush"}
                        => e.lsn <= stable /\ log[e.lsn].kind = "flush"

\* ----------------------------------- properties: blocking with a reservation

\* thread t holds, in an activation below its i-th, a reservation that is
\* neither completed nor aborted
HoldsPendingBelow(t, i) ==
    \E j \in 1..(i - 1) :
        th[t][j].resv # 0 /\ log[th[t][j].resv].kind = "reserved"

\* the i-th activation of thread t is in page_out or in advance_snapshot
Stabilizes(t, i) ==
    \/ th[t][i].fn = "get" /\ th[t][i].pc \in {"g_evict", "g_pocas"}
    \/ th[t][i].fn = "advance_snapshot"

\* thread t is in page_out before make_stable of an lsn that is not below a
\* reservation of its own that is pending: make_stable cannot return
StallsOnOwnBuffer(t) ==
    /\ At(t, "get", "g_evict")
    /\ inner[Head(Top(t).evict)] # 0
    /\ StackIter(inner[Head(Top(t).evict)]) # <<>>
    /\ \E j \in 1..(Len(th[t]) - 1) :
          /\ th[t][j].resv # 0
          /\ log[th[t][j].resv].kind = "reserved"
          /\ th[t][j].resv <= Last(StackIter(inner[Head(Top(t).evict)])).lsn

\* C31: no thread runs page_out (make_stable) or advance_snapshot (flush)
\* while an activation of link or replace below holds a reservation that is
\* not resolved, so no thread waits in make_stable for its own reservation.
NoStabilizeWhileReserved ==
    \A t \in Threads :
        /\ \A i \in 1..Len(th[t]) : Stabilizes(t, i) => ~HoldsPendingBelow(t, i)
        /\ ~StallsOnOwnBuffer(t)

\* ------------------------------------------- properties: the victim list

\* thread t is in page_out and is done with the first victim of its list
NextVictim(t) ==
    /\ At(t, "get", "g_evict")
    /\ th'[t] # <<>>
    /\ Last(th'[t]).evict # Top(t).evict

\* the page is not in the page table, or its stack is empty
NothingToPageOut(pid) ==
    IF inner[pid] = 0 THEN TRUE ELSE StackIter(inner[pid]) = <<>>

\* C32: when the victim page_out looks at is absent from the page table or
\* has an empty stack, page_out goes on with the victims that follow it in
\* the list: all of them are still to be paged out.
PageOutGoesOn ==
    [][\A t \in Threads :
         (NextVictim(t) /\ NothingToPageOut(Head(Top(t).evict)))
            => Last(th'[t]).evict = Tail(Top(t).evict)]_vars

\* ------------------------------------------------- the returned head (C33)

\* the step just taken returned a successful link, replace or get to a client
Succeeded ==
    /\ ret.t # 0
    /\ ret.r.op \in {"link", "replace", "get"}
    /\ ret.r.k \in {"Ok", "Some"}

\* no operation of another thread ran beside the call that returned: it is
\* the only call the clients of this run have made, and it has returned
Alone == calls = 1 /\ \A t \in Threads : Idle(t)

\* C33: the head that a successful link, replace or get returns to a client
\* that runs alone is the head of the page when the call returns: a link or
\* replace with that head as `old` would succeed.
ReturnedHeadIsCurrent ==
    (Succeeded /\ Alone)
        => /\ inner[ret.r.pid] # 0
           /\ IsHead(ret.r.head, inner[ret.r.pid])

====
